---------------------------- MODULE Spec2Model ----------------------------
(***************************************************************************)
(* Model of the MCP gateway entrypoint (mcp-server/index.js): the          *)
(* connection registry, the SSE stream of each connection, the JSON-RPC    *)
(* dispatcher of POST /mcp/message with its five tools, the delivery of    *)
(* each response (SSE stream or inline) and the REST session endpoints.    *)
(*                                                                         *)
(* Every handler of the file runs to completion without awaiting, so each  *)
(* handler is one atomic action.  The platform (Node's response stream)    *)
(* is the environment: it may end a stream, make its writes fail, and      *)
(* deliver close / error notifications.                                    *)
(***************************************************************************)
EXTENDS Integers, Sequences, FiniteSets, TLC

\* ------------------------------------------------------------ bounds
MaxStreams == 2       \* GET /mcp/sse requests served
MaxPosts == 1         \* POST /mcp/message requests served
MaxSessions == 2      \* sessions created (MCP tool or REST)
MaxDocs == 1          \* documents uploaded (MCP tool or REST)
MaxTicks == 1         \* keep-alive timer firings
MaxStorePosts == 2    \* POSTs served in a run over the session store
MaxStoreSessions == 2 \* sessions in a run over the session store
MaxStoreDocs == 2     \* documents in a run over the session store
MaxAuthCalls == 2     \* calls of getAuthHeaders in a run over authentication
MaxCrossPosts == 3    \* POSTs served in a run over two connections
MaxCrossSessions == 1 \* sessions in a run over two connections
MaxCrossDocs == 1     \* documents in a run over two connections

\* ------------------------------------------------------------ JS values
\* A JavaScript string is a sequence of characters; an id is a one-token
\* string.  A JSON value a client may send where a string is expected is a
\* string, a number, or nothing at all (undefined).
Str(s) == [k |-> "string", s |-> s]
Undef == [k |-> "undefined", s |-> <<>>]
Num == [k |-> "number", s |-> <<>>]

IsStr(v) == v.k = "string"

\* Mutant of ConnId: every connection gets the same id.
ConnIdReused(n) == "c1"

\* uuidv4(): a token never produced before; the n-th one of its kind.
ConnId(n) == "c" \o ToString(n)
Sid(n) == <<"s" \o ToString(n)>>
DocId(n) == <<"d" \o ToString(n)>>

\* String.prototype.toLowerCase over the alphabet of the model.  "Idot" is
\* the capital I with a dot above (U+0130): its lower case is two code
\* units, an i and a combining dot, so the result may be longer than s.
LowerChar(c) == CASE c = "A" -> <<"a">>
                  [] c = "B" -> <<"b">>
                  [] c = "Idot" -> <<"i", "dot">>
                  [] OTHER -> <<c>>

RECURSIVE ToLower(_)
ToLower(s) ==
  IF s = <<>> THEN <<>>
  ELSE IF Len(s) = 1 THEN LowerChar(s[1])
  ELSE LET half == Len(s) \div 2
       IN  ToLower(SubSeq(s, 1, half)) \o ToLower(SubSeq(s, half + 1, Len(s)))

\* String.prototype.indexOf: 0-based position of the first occurrence, -1
\* when there is none.
OccursAt(s, q, i) == /\ i + Len(q) <= Len(s)
                     /\ \A j \in 1..Len(q) : s[i + j] = q[j]

IndexOf(s, q) == IF \E i \in 0..Len(s) : OccursAt(s, q, i)
                 THEN CHOOSE i \in 0..Len(s) :
                        /\ OccursAt(s, q, i)
                        /\ \A j \in 0..(i - 1) : ~OccursAt(s, q, j)
                 ELSE -1

Includes(s, q) == IndexOf(s, q) >= 0

Max(a, b) == IF a >= b THEN a ELSE b
Min(a, b) == IF a <= b THEN a ELSE b

\* String.prototype.substring(a, b): both ends clamped to [0, length] and
\* swapped when a > b.
Substring(s, a, b) ==
  LET ca == Max(0, Min(a, Len(s)))
      cb == Max(0, Min(b, Len(s)))
      lo == Min(ca, cb)
      hi == Max(ca, cb)
  IN  [i \in 1..(hi - lo) |-> s[lo + i]]


\* ------------------------------------------------------------ session store
\* `sessions` is the object of line 89, kept as the list of its entries in
\* insertion order (the order Object.entries walks): each entry is a
\* session id with its documents and its query history.
VARIABLES sessions

SessionCount(S) == Len(S)

RECURSIVE DocCount(_)
DocCount(S) == IF S = <<>> THEN 0 ELSE Len(Head(S).docs) + DocCount(Tail(S))

NewSession(sid) == [id |-> sid, docs |-> <<>>, history |-> <<>>]

\* sessions[key]: an own entry, a property inherited from Object.prototype
\* (truthy, with no docs), or undefined.
OwnIndex(S, v) == IF IsStr(v) /\ \E i \in 1..Len(S) : S[i].id = v.s
                  THEN CHOOSE i \in 1..Len(S) : S[i].id = v.s
                  ELSE 0

ProtoKeys == { <<"constructor">> }

LookupKind(S, v) == IF OwnIndex(S, v) > 0 THEN "own"
                    ELSE IF IsStr(v) /\ v.s \in ProtoKeys THEN "proto"
                    ELSE "none"

\* Mutant of PushDoc: the document takes the place of the list.
PushDocOverwrites(S, i, doc) == [S EXCEPT ![i].docs = <<doc>>]

\* Mutant of PushDoc: the document is put in front.
PushDocFront(S, i, doc) == [S EXCEPT ![i].docs = <<doc>> \o @]

\* session.docs.push({ id, title, text })
PushDoc(S, i, doc) == [S EXCEPT ![i].docs = Append(@, doc)]

\* ------------------------------------------------------------ tools
\* A tool either throws (threw, with the Error's message) or yields the
\* object whose JSON text becomes the result's single content block; S is
\* the session store it leaves behind.
NoArgs == [present |-> FALSE, sessionId |-> Undef, docId |-> Undef,
           query |-> Undef, title |-> Undef, text |-> Undef]

NoPayload == [t |-> "none"]
NoError == [msg |-> "", arg |-> Undef]

Thrown(S, msg, arg) == [threw |-> TRUE, err |-> [msg |-> msg, arg |-> arg],
                        payload |-> NoPayload, S |-> S]

Returned(S, payload) == [threw |-> FALSE, err |-> NoError,
                         payload |-> payload, S |-> S]

\* Reading a property of undefined: `args.x` when the request carries no
\* arguments object.
TypeErr(S) == Thrown(S, "TypeError", Undef)

\* Mutant of CreateSession: the id is always the first one.
CreateSessionSameId(S, args) ==
  LET sid == Sid(1)
  IN  Returned(Append(S, NewSession(sid)),
               [t |-> "create_session", sessionId |-> Str(sid),
                message |-> "Session created successfully"])

CreateSession(S, args) ==
  LET sid == Sid(SessionCount(S) + 1)
  IN  Returned(Append(S, NewSession(sid)),
               [t |-> "create_session", sessionId |-> Str(sid),
                message |-> "Session created successfully"])

\* d.text.length: throws on undefined, is undefined (the key is dropped by
\* JSON.stringify, here -1) on a number.
TextLength(v) == IF IsStr(v) THEN Len(v.s) ELSE -1

ListDocuments(S, args) ==
  IF ~args.present THEN TypeErr(S)
  ELSE LET kind == LookupKind(S, args.sessionId)
           i == OwnIndex(S, args.sessionId)
       IN  IF kind = "none" THEN Thrown(S, "Session not found", args.sessionId)
           ELSE IF kind = "proto" THEN TypeErr(S)
           ELSE IF \E j \in 1..Len(S[i].docs) : S[i].docs[j].text = Undef
                THEN TypeErr(S)
           ELSE Returned(S,
                  [t |-> "list_documents", sessionId |-> args.sessionId,
                   documentCount |-> Len(S[i].docs),
                   documents |-> [j \in 1..Len(S[i].docs) |->
                                    [id |-> S[i].docs[j].id,
                                     title |-> S[i].docs[j].title,
                                     textLength |-> TextLength(S[i].docs[j].text)]]])

GetDocument(S, args) ==
  IF ~args.present THEN TypeErr(S)
  ELSE LET kind == LookupKind(S, args.sessionId)
           i == OwnIndex(S, args.sessionId)
       IN  IF kind = "none" THEN Thrown(S, "Session not found", args.sessionId)
           ELSE IF kind = "proto" THEN TypeErr(S)
           ELSE IF ~\E j \in 1..Len(S[i].docs) : Str(S[i].docs[j].id) = args.docId
                THEN Thrown(S, "Document not found", args.docId)
           ELSE LET j == CHOOSE j \in 1..Len(S[i].docs) :
                           /\ Str(S[i].docs[j].id) = args.docId
                           /\ \A m \in 1..(j - 1) : Str(S[i].docs[m].id) # args.docId
                IN  Returned(S, [t |-> "get_document", id |-> S[i].docs[j].id,
                                 title |-> S[i].docs[j].title,
                                 text |-> S[i].docs[j].text])

\* Characters taken on each side of the first match for a snippet.
SnippetRadius == 50

\* A value that passes `args.sessionId ? ... : ...`.
Truthy(v) == \/ IsStr(v) /\ v.s # <<>>
             \/ v.k = "number"

\* The sessions search_documents walks: the one named by a truthy
\* sessionId (none when that key is undefined), or all of them.
SessionsToSearch(S, v) ==
  IF Truthy(v)
  THEN IF OwnIndex(S, v) > 0 THEN <<S[OwnIndex(S, v)]>> ELSE <<>>
  ELSE S

RECURSIVE DocsOf(_)
DocsOf(E) == IF E = <<>> THEN <<>>
             ELSE [j \in 1..Len(Head(E).docs) |->
                     [sessionId |-> Head(E).id, doc |-> Head(E).docs[j]]]
                  \o DocsOf(Tail(E))

\* doc.text.toLowerCase().includes(q) || doc.title.toLowerCase().includes(q)
\* throws when the operand it reaches is not a string.
MatchThrows(doc, q) ==
  \/ ~IsStr(doc.text)
  \/ ~Includes(ToLower(doc.text.s), q) /\ ~IsStr(doc.title)

\* Mutant of Matches: the title is not looked at.
MatchesTextOnly(doc, q) == Includes(ToLower(doc.text.s), q)

Matches(doc, q) ==
  \/ Includes(ToLower(doc.text.s), q)
  \/ Includes(ToLower(doc.title.s), q)

Snippet(text, q) ==
  LET index == IndexOf(ToLower(text), q)
  IN  <<"...">>
      \o Substring(text, Max(0, index - SnippetRadius),
                   Min(Len(text), index + SnippetRadius))
      \o <<"...">>

SearchResult(e, q) == [sessionId |-> e.sessionId, docId |-> e.doc.id,
                       title |-> e.doc.title, snippet |-> Snippet(e.doc.text.s, q)]

SearchDocuments(S, args) ==
  IF ~args.present \/ ~IsStr(args.query) THEN TypeErr(S)
  ELSE IF Truthy(args.sessionId) /\ LookupKind(S, args.sessionId) = "proto"
       THEN TypeErr(S)
  ELSE LET q == ToLower(args.query.s)
           all == DocsOf(SessionsToSearch(S, args.sessionId))
           hit(e) == Matches(e.doc, q)
           hits == SelectSeq(all, hit)
       IN  IF \E n \in 1..Len(all) : MatchThrows(all[n].doc, q) THEN TypeErr(S)
           ELSE Returned(S,
                  [t |-> "search_documents", query |-> args.query,
                   resultCount |-> Len(hits),
                   results |-> [n \in 1..Len(hits) |-> SearchResult(hits[n], q)]])

\* Mutant of UploadDocument: the document is stored, then a missing text
\* is refused.
UploadDocumentThenRefuses(S, args) ==
  IF ~args.present THEN TypeErr(S)
  ELSE LET kind == LookupKind(S, args.sessionId)
           i == OwnIndex(S, args.sessionId)
           docId == DocId(DocCount(S) + 1)
           stored == PushDoc(S, i, [id |-> docId, title |-> args.title,
                                    text |-> args.text])
       IN  IF kind = "none" THEN Thrown(S, "Session not found", Undef)
           ELSE IF kind = "proto" THEN TypeErr(S)
           ELSE IF args.text = Undef THEN Thrown(stored, "Text required", Undef)
           ELSE Returned(stored,
                         [t |-> "upload_document", success |-> TRUE,
                          docId |-> docId, title |-> args.title,
                          sessionId |-> args.sessionId])

UploadDocument(S, args) ==
  IF ~args.present THEN TypeErr(S)
  ELSE LET kind == LookupKind(S, args.sessionId)
           i == OwnIndex(S, args.sessionId)
           docId == DocId(DocCount(S) + 1)
       IN  IF kind = "none" THEN Thrown(S, "Session not found", Undef)
           ELSE IF kind = "proto" THEN TypeErr(S)
           ELSE Returned(PushDoc(S, i, [id |-> docId, title |-> args.title,
                                        text |-> args.text]),
                         [t |-> "upload_document", success |-> TRUE,
                          docId |-> docId, title |-> args.title,
                          sessionId |-> args.sessionId])

\* switch (name) of the tools/call branch.
RunTool(S, name, args) ==
  CASE name = Str(<<"create_session">>) -> CreateSession(S, args)
    [] name = Str(<<"list_documents">>) -> ListDocuments(S, args)
    [] name = Str(<<"get_document">>) -> GetDocument(S, args)
    [] name = Str(<<"search_documents">>) -> SearchDocuments(S, args)
    [] name = Str(<<"upload_document">>) -> UploadDocument(S, args)
    [] OTHER -> Thrown(S, "Unknown tool", name)

\* ------------------------------------------------------------ JSON-RPC
\* A request: the sessionId of the query string, the Accept header (the
\* list of its media types) and the JSON body.  NoId and NoMethod stand
\* for a body without that key.
NoId == 0
NoMethod == ""

\* Mutant of WantsSSE: only the first media type is compared.
WantsSSEFirstOnly(accept) == accept # <<>> /\ accept[1] = "text/event-stream"

\* acceptHeader.includes('text/event-stream')
WantsSSE(accept) == \E i \in 1..Len(accept) : accept[i] = "text/event-stream"

AbsentResult == [t |-> "absent"]
AbsentDebug == [t |-> "absent"]
AbsentError == [code |-> 0, message |-> "", arg |-> "", debug |-> AbsentDebug]

\* Mutant of Envelope: the id is left out.
EnvelopeDropsId(id, result, error) ==
  [jsonrpc |-> "2.0", id |-> 0, result |-> result, error |-> error]

Envelope(id, result, error) ==
  [jsonrpc |-> "2.0", id |-> id, result |-> result, error |-> error]

NoEnvelope == [jsonrpc |-> "", id |-> NoId, result |-> AbsentResult,
               error |-> AbsentError]

ConnectionNotFound == -32001
MethodNotFound == -32601
InternalError == -32603

InitializeResult ==
  [t |-> "initialize", protocolVersion |-> "2024-11-05",
   capabilities |-> {"tools", "resources"},
   serverInfo |-> [name |-> "ai-foundry-mcp-gateway", version |-> "1.0.0"]]

ToolSchema(name, props, required) ==
  [name |-> name, properties |-> props, required |-> required]

ToolsListResult ==
  [t |-> "tools/list",
   tools |-> << ToolSchema("create_session", {}, {}),
                ToolSchema("list_documents", {"sessionId"}, {"sessionId"}),
                ToolSchema("get_document", {"sessionId", "docId"},
                           {"sessionId", "docId"}),
                ToolSchema("search_documents", {"query", "sessionId"}, {"query"}),
                ToolSchema("upload_document", {"sessionId", "title", "text"},
                           {"sessionId", "title", "text"}) >>]

\* result of a tool that returned: one text block with the JSON of its payload.
ToolSuccess(payload) ==
  [t |-> "tool", isError |-> FALSE,
   content |-> << [type |-> "text", text |-> payload] >>]

\* errorResult of the toolError catch: `Tool execution failed: ${message}`.
ToolFailure(err) ==
  [t |-> "tool", isError |-> TRUE,
   content |-> << [type |-> "text",
                   text |-> [t |-> "Tool execution failed",
                             msg |-> err.msg, arg |-> err.arg]] >>]

\* ------------------------------------------------------------ streams
\* An SSE response stream: the id its endpoint event advertised, what the
\* platform does with a write ("open": delivered; "broken": the write
\* throws; "ended": writableEnded, the write is dropped; "closed": the
\* stream is destroyed), the frames delivered on it, whether its keep-alive
\* interval is scheduled and which notifications have been delivered.
VARIABLES mcpConnections, streams, last, nPosts, nTicks

\* Authentication (auth.js): the FOUNDRY_API_KEY of the environment, what
\* the credential provider answers to getToken at present, whether a call
\* of getAuthHeaders is awaiting its token, the outcome of the last call,
\* the calls completed and the tokens requested.
VARIABLES apiKey, provider, authPc, authResult, nAuth, nTokenRequests

authVars == <<apiKey, provider, authPc, authResult, nAuth, nTokenRequests>>

gatewayVars == <<sessions, mcpConnections, streams, last, nPosts, nTicks>>

vars == <<sessions, mcpConnections, streams, last, nPosts, nTicks,
          apiKey, provider, authPc, authResult, nAuth, nTokenRequests>>

Frame(event, url, env) == [event |-> event, url |-> url, env |-> env]

EndpointFrame(id) == Frame("endpoint", id, NoEnvelope)
MessageFrame(env) == Frame("message", "", env)
KeepAliveFrame == Frame("keep-alive", "", NoEnvelope)

NewStream(id) == [id |-> id, state |-> "open", frames |-> <<EndpointFrame(id)>>,
                  keepAlive |-> TRUE, closeSeen |-> FALSE, errorSeen |-> FALSE]

\* res.write(frame) on stream h: what the platform does with it.
WriteOutcome(st, h) == CASE st[h].state = "open" -> "ok"
                         [] st[h].state = "broken" -> "throws"
                         [] OTHER -> "dropped"

\* Mutant of WritableEnded: the check is left out.
WritableEndedNever(st, h) == FALSE

WritableEnded(st, h) == st[h].state = "ended"

\* The streams after the writes of one handler: a delivered frame is appended.
RECURSIVE ApplyWrites(_, _)
\* Mutant of ApplyWrites: a delivered frame is put in front.
ApplyWritesFront(st, ws) ==
  IF ws = <<>> \/ Head(ws).outcome # "ok" THEN st
  ELSE [st EXCEPT ![Head(ws).to].frames = <<Head(ws).frame>> \o @]

ApplyWrites(st, ws) ==
  IF ws = <<>> THEN st
  ELSE LET w == Head(ws)
           st1 == IF w.outcome = "ok"
                  THEN [st EXCEPT ![w.to].frames = Append(@, w.frame)]
                  ELSE st
       IN  ApplyWrites(st1, Tail(ws))

\* Mutant of Write: every frame goes to the first stream.
WriteFirstStream(st, h, frame) ==
  [to |-> 1, frame |-> frame, outcome |-> WriteOutcome(st, 1)]

Write(st, h, frame) == [to |-> h, frame |-> frame, outcome |-> WriteOutcome(st, h)]

\* Mutant of Lookup: an unknown id falls back to some registered connection.
LookupAny(reg, id) == IF id \in DOMAIN reg THEN reg[id]
                      ELSE IF DOMAIN reg # {} THEN reg[CHOOSE k \in DOMAIN reg : TRUE]
                      ELSE 0

\* mcpConnections.get(id): the stream handle, 0 for undefined.
Lookup(reg, id) == IF id \in DOMAIN reg THEN reg[id] ELSE 0

\* Mutant of Delete: every entry goes.
DeleteAll(reg, id) == [k \in {} |-> 0]

\* Mutant of Delete: the entry stays.
DeleteNothing(reg, id) == reg

\* mcpConnections.delete(id)
Delete(reg, id) == [k \in DOMAIN reg \ {id} |-> reg[k]]

\* mcpConnections.set(id, { server, res })
Set(reg, id, h) == [k \in DOMAIN reg \cup {id} |-> IF k = id THEN h ELSE reg[k]]

\* ------------------------------------------------------------ POST /mcp/message
\* An HTTP response of the POST: its status, the kind of its body ("json",
\* "sse": one event-stream frame, "empty"), the JSON-RPC envelope the body
\* carries (NoEnvelope when it carries none) and, for a JSON body that is
\* no envelope, its single key ("acknowledged", "received").
Reply(status, ctype, env, note) ==
  [status |-> status, ctype |-> ctype, env |-> env, note |-> note]

NoTool == [ran |-> FALSE, threw |-> FALSE]

\* What one run of the handler did: the responses it sent on the POST, the
\* writes it attempted on SSE streams, the session store it left, whether
\* a tool ran, and the connection the sessionId resolved to (0: none).
Outcome(replies, writes, S, tool, conn) ==
  [replies |-> replies, writes |-> writes, S |-> S, tool |-> tool, conn |-> conn]

\* Mutant of Internal: the fault is reported as a successful response.
InternalAsSuccess(req, msg, writes, S, h) ==
  Outcome(<< Reply(200, "json",
                   Envelope(req.body.id, AbsentResult,
                            [code |-> InternalError, message |-> msg, arg |-> "",
                             debug |-> AbsentDebug]), "") >>,
          writes, S, NoTool, h)

\* The outer catch: HTTP 500 with a JSON-RPC internal error.
Internal(req, msg, writes, S, h) ==
  Outcome(<< Reply(500, "json",
                   Envelope(req.body.id, AbsentResult,
                            [code |-> InternalError, message |-> msg, arg |-> "",
                             debug |-> AbsentDebug]), "") >>,
          writes, S, NoTool, h)

\* Mutant of NotFound: the diagnostic payload lists no ids.
NotFoundListsNone(reg, req, S) ==
  Outcome(<< Reply(404, "json",
                   Envelope(req.body.id, AbsentResult,
                            [code |-> ConnectionNotFound,
                             message |-> "Connection not found", arg |-> "",
                             debug |-> [t |-> "debug",
                                        requestedId |-> req.sessionId,
                                        totalConnections |-> Cardinality(DOMAIN reg),
                                        availableIds |-> {},
                                        message |-> req.body.method,
                                        accept |-> req.accept]]), "") >>,
          <<>>, S, NoTool, 0)

\* No connection under the sessionId: HTTP 404 with the registry's ids.
NotFound(reg, req, S) ==
  Outcome(<< Reply(404, "json",
                   Envelope(req.body.id, AbsentResult,
                            [code |-> ConnectionNotFound,
                             message |-> "Connection not found", arg |-> "",
                             debug |-> [t |-> "debug",
                                        requestedId |-> req.sessionId,
                                        totalConnections |-> Cardinality(DOMAIN reg),
                                        availableIds |-> DOMAIN reg,
                                        message |-> req.body.method,
                                        accept |-> req.accept]]), "") >>,
          <<>>, S, NoTool, 0)

\* Mutant of PushAndReturn: a client that gets the envelope inline gets no
\* frame on its stream.
PushOnlyForStreaming(st, req, S, h, env) ==
  IF WantsSSE(req.accept)
  THEN LET w == Write(st, h, MessageFrame(env))
       IN  IF w.outcome = "throws" THEN Internal(req, "write failed", <<w>>, S, h)
           ELSE Outcome(<<Reply(202, "empty", NoEnvelope, "")>>, <<w>>, S, NoTool, h)
  ELSE Outcome(<<Reply(200, "json", env, "")>>, <<>>, S, NoTool, h)

\* initialize and tools/list: write to the connection's stream, then answer
\* 202 to a streaming client and the envelope to any other.
PushAndReturn(st, req, S, h, env) ==
  LET w == Write(st, h, MessageFrame(env))
  IN  IF w.outcome = "throws" THEN Internal(req, "write failed", <<w>>, S, h)
      ELSE Outcome(<< IF WantsSSE(req.accept)
                      THEN Reply(202, "empty", NoEnvelope, "")
                      ELSE Reply(200, "json", env, "") >>,
                   <<w>>, S, NoTool, h)

Initialize(st, req, S, h) ==
  PushAndReturn(st, req, S, h, Envelope(req.body.id, InitializeResult, AbsentError))

\* Mutant of ToolsList: the list is served only after the handshake.
ToolsListAfterInitialize(st, req, S, h) ==
  IF \E i \in 1..Len(st[h].frames) : st[h].frames[i].env.result = InitializeResult
  THEN PushAndReturn(st, req, S, h, Envelope(req.body.id, ToolsListResult, AbsentError))
  ELSE Internal(req, "Server not initialized", <<>>, S, h)

ToolsList(st, req, S, h) ==
  PushAndReturn(st, req, S, h, Envelope(req.body.id, ToolsListResult, AbsentError))

\* Mutant of DeliverToolResult: the response is also returned on the POST.
DeliverToolResultTwice(reg, st, req, S, h, env) ==
  LET sse == Lookup(reg, req.sessionId)
      tool == [ran |-> TRUE, threw |-> FALSE]
  IN  IF sse # 0 /\ ~WritableEnded(st, sse)
      THEN Outcome(<<Reply(200, "json", env, "")>>,
                   <<Write(st, sse, MessageFrame(env))>>, S, tool, h)
      ELSE Outcome(<<Reply(200, "json", env, "")>>, <<>>, S, tool, h)

\* A tool that returned: its response goes to the SSE stream registered
\* under the sessionId when that stream is there and not ended, and the
\* POST is acknowledged; otherwise, and when the write throws, the POST
\* carries the response.
DeliverToolResult(reg, st, req, S, h, env) ==
  LET sse == Lookup(reg, req.sessionId)
      tool == [ran |-> TRUE, threw |-> FALSE]
  IN  IF sse # 0 /\ ~WritableEnded(st, sse)
      THEN LET w == Write(st, sse, MessageFrame(env))
           IN  IF w.outcome = "throws"
               THEN Outcome(<<Reply(200, "json", env, "")>>, <<w>>, S, tool, h)
               ELSE Outcome(<<Reply(200, "json", NoEnvelope, "acknowledged")>>,
                            <<w>>, S, tool, h)
      ELSE Outcome(<<Reply(200, "json", env, "")>>, <<>>, S, tool, h)

\* Mutant of DeliverToolError: a streaming client is left without a response.
DeliverToolErrorUnanswered(req, S, h, env) ==
  Outcome(IF WantsSSE(req.accept) THEN <<>> ELSE <<Reply(200, "json", env, "")>>,
          <<>>, S, [ran |-> TRUE, threw |-> TRUE], h)

\* A tool that threw: the isError result goes to the POST's own response,
\* as an event-stream frame to a streaming client and as JSON to any other.
DeliverToolError(req, S, h, env) ==
  Outcome(<< IF WantsSSE(req.accept) THEN Reply(200, "sse", env, "")
             ELSE Reply(200, "json", env, "") >>,
          <<>>, S, [ran |-> TRUE, threw |-> TRUE], h)

\* Mutant of ToolsCall: a delivery that throws undoes the tool's effect.
ToolsCallRollsBack(reg, st, req, S, h) ==
  IF ~req.body.hasParams THEN Internal(req, "TypeError", <<>>, S, h)
  ELSE LET r == RunTool(S, req.body.name, req.body.args)
           o == DeliverToolResult(reg, st, req, r.S, h,
                  Envelope(req.body.id, ToolSuccess(r.payload), AbsentError))
       IN  IF r.threw
           THEN DeliverToolError(req, r.S, h,
                  Envelope(req.body.id, ToolFailure(r.err), AbsentError))
           ELSE IF \E i \in DOMAIN o.writes : o.writes[i].outcome = "throws"
                THEN [o EXCEPT !.S = S]
                ELSE o

ToolsCall(reg, st, req, S, h) ==
  IF ~req.body.hasParams THEN Internal(req, "TypeError", <<>>, S, h)
  ELSE LET r == RunTool(S, req.body.name, req.body.args)
       IN  IF r.threw
           THEN DeliverToolError(req, r.S, h,
                  Envelope(req.body.id, ToolFailure(r.err), AbsentError))
           ELSE DeliverToolResult(reg, st, req, r.S, h,
                  Envelope(req.body.id, ToolSuccess(r.payload), AbsentError))

\* Mutant of MethodNotFoundEnvelope: the id of the request is not echoed.
MethodNotFoundNoId(req) ==
  Envelope(NoId, AbsentResult,
           [code |-> MethodNotFound, message |-> "Method not found",
            arg |-> req.body.method, debug |-> AbsentDebug])

\* errorResponse of the last branch: `Method not found: ${message.method}`.
MethodNotFoundEnvelope(req) ==
  Envelope(req.body.id, AbsentResult,
           [code |-> MethodNotFound, message |-> "Method not found",
            arg |-> req.body.method, debug |-> AbsentDebug])

\* Any other method: the error goes to the POST's own response as an
\* event-stream frame for a streaming client; for any other client it is
\* written to the connection's stream and the POST answers {received: true}.
UnknownMethod(st, req, S, h) ==
  LET env == MethodNotFoundEnvelope(req)
  IN  IF WantsSSE(req.accept)
      THEN Outcome(<<Reply(200, "sse", env, "")>>, <<>>, S, NoTool, h)
      ELSE LET w == Write(st, h, MessageFrame(env))
           IN  IF w.outcome = "throws" THEN Internal(req, "write failed", <<w>>, S, h)
               ELSE Outcome(<<Reply(200, "json", NoEnvelope, "received")>>,
                            <<w>>, S, NoTool, h)

HandleMessage(reg, st, req, S) ==
  LET h == Lookup(reg, req.sessionId)
  IN  IF h = 0 THEN NotFound(reg, req, S)
      ELSE CASE req.body.method = "initialize" -> Initialize(st, req, S, h)
             [] req.body.method = "tools/list" -> ToolsList(st, req, S, h)
             [] req.body.method = "tools/call" -> ToolsCall(reg, st, req, S, h)
             [] OTHER -> UnknownMethod(st, req, S, h)

\* ------------------------------------------------------------ inputs
Body(id, method, hasParams, name, args) ==
  [jsonrpc |-> "2.0", id |-> id, method |-> method, hasParams |-> hasParams,
   name |-> name, args |-> args]

\* The same body with another version tag ("" for a body without one).
Tagged(body, tag) == [body EXCEPT !.jsonrpc = tag]

Args(sessionId, docId, query, title, text) ==
  [present |-> TRUE, sessionId |-> sessionId, docId |-> docId, query |-> query,
   title |-> title, text |-> text]

MsgIds == {NoId, 1}

AcceptHeaders == { <<>>, <<"application/json", "text/event-stream">> }

\* The ids a client may put in the query string: every id the gateway can
\* have issued, and one it never issues.
SessionIdParams == {ConnId(n) : n \in 1..MaxStreams} \cup {"nonexistent"}

\* Values of the tools' arguments: for sessionId every id the store can
\* hold and one it never holds, nothing at all, and a key every object
\* inherits; likewise for the other arguments.
SidValues == {Str(Sid(n)) : n \in 1..(MaxSessions + 1)}
               \cup {Undef, Str(<<"constructor">>)}
DocIdValues == {Str(DocId(n)) : n \in 1..(MaxDocs + 1)}
QueryValues == {Str(<<"b">>), Str(<<"z">>), Undef}
TitleValues == {Str(<<"b">>), Undef}
TextValues == {Str(<<"a", "B">>), Undef}

ToolArgs ==
  [create_session |-> {NoArgs, Args(Undef, Undef, Undef, Undef, Undef)},
   list_documents |-> {NoArgs} \cup
      {Args(s, Undef, Undef, Undef, Undef) : s \in SidValues},
   get_document |-> {NoArgs} \cup
      {Args(s, Str(DocId(1)), Undef, Undef, Undef) : s \in SidValues} \cup
      {Args(Str(Sid(1)), d, Undef, Undef, Undef) : d \in DocIdValues},
   search_documents |-> {NoArgs} \cup
      {Args(s, Undef, Str(<<"b">>), Undef, Undef) : s \in SidValues} \cup
      {Args(Undef, Undef, q, Undef, Undef) : q \in QueryValues},
   upload_document |-> {NoArgs} \cup
      {Args(s, Undef, Undef, Str(<<"b">>), Str(<<"a", "B">>)) : s \in SidValues} \cup
      {Args(Str(Sid(1)), Undef, Undef, t, x) : t \in TitleValues, x \in TextValues}]

ToolCalls ==
  UNION { {[name |-> Str(<<n>>), args |-> a] : a \in ToolArgs[n]} :
          n \in DOMAIN ToolArgs }
    \cup {[name |-> Str(<<"unknown_tool">>), args |-> NoArgs],
          [name |-> Undef, args |-> NoArgs]}

ToolBodies(ids, calls) ==
  {Body(i, "tools/call", TRUE, c.name, c.args) : i \in ids, c \in calls}

\* One call of each outcome: a tool that creates, one that reads, one that
\* appends, one that is not there, and one without arguments.
CoreCalls ==
  {[name |-> Str(<<"create_session">>), args |-> Args(Undef, Undef, Undef, Undef, Undef)],
   [name |-> Str(<<"get_document">>),
    args |-> Args(Str(Sid(1)), Str(DocId(1)), Undef, Undef, Undef)],
   [name |-> Str(<<"upload_document">>),
    args |-> Args(Str(Sid(1)), Undef, Undef, Str(<<"b">>), Str(<<"a", "B">>))],
   [name |-> Str(<<"unknown_tool">>), args |-> NoArgs],
   [name |-> Str(<<"list_documents">>), args |-> NoArgs]}

CoreBodies ==
  {Body(i, m, FALSE, Undef, NoArgs) :
     i \in MsgIds, m \in {"initialize", "tools/list", "tools/call", "ping", NoMethod}}
    \cup ToolBodies(MsgIds, CoreCalls)

\* Bodies whose version tag is missing or is not "2.0".
VersionTags == {"", "1.0"}

UntaggedBodies ==
  {Tagged(Body(i, m, FALSE, Undef, NoArgs), v) :
     i \in MsgIds, m \in {"initialize", NoMethod}, v \in VersionTags}

Request(sessionId, accept, body) ==
  [sessionId |-> sessionId, accept |-> accept, body |-> body]

\* Every core body on every sessionId, and every other tool call and
\* every body with a wrong version tag on the first connection.
Requests ==
  {Request(c, a, b) : c \in SessionIdParams, a \in AcceptHeaders, b \in CoreBodies}
    \cup {Request(ConnId(1), a, b) :
            a \in AcceptHeaders, b \in ToolBodies({1}, ToolCalls \ CoreCalls)}
    \cup {Request(ConnId(1), a, b) : a \in AcceptHeaders, b \in UntaggedBodies}

NoRequest == [sessionId |-> "", accept |-> <<>>,
              body |-> Body(NoId, NoMethod, FALSE, Undef, NoArgs)]

\* ------------------------------------------------------------ authentication
\* What credential.getToken does: resolves to a token object (its token a
\* string, possibly empty), resolves to null, or rejects with an Error.
TokenAnswer(k, token, msg) == [k |-> k, token |-> token, msg |-> msg]

Providers ==
  { TokenAnswer("token", Str(<<"t1">>), ""),
    TokenAnswer("token", Str(<<"t2">>), ""),
    TokenAnswer("token", Str(<<>>), ""),
    TokenAnswer("null", Undef, ""),
    TokenAnswer("rejects", Undef, "ENOTFOUND"),
    TokenAnswer("rejects", Undef, "CredentialUnavailable") }

\* process.env.FOUNDRY_API_KEY: not set, set to the empty string, or a key.
ApiKeys == {Undef, Str(<<>>), Str(<<"k1">>), Str(<<"k2">>)}

Header(name, value) == [name |-> name, value |-> value]

NoAuthResult == [kind |-> "none", headers |-> {}, message |-> <<>>]
AuthHeaders(h) == [kind |-> "returned", headers |-> {h}, message |-> <<>>]
AuthFailed(cause) ==
  [kind |-> "threw", headers |-> {}, message |-> <<"Authentication failed", cause>>]

\* Mutant of TokenOutcome: an empty token is sent as it is.
TokenOutcomeUnchecked(answer) ==
  CASE answer.k = "token" ->
         AuthHeaders(Header("Authorization", <<"Bearer", answer.token.s>>))
    [] answer.k = "null" ->
         AuthFailed("Failed to obtain token from credential provider")
    [] OTHER -> AuthFailed(answer.msg)

\* The try / catch around getToken: a Bearer header from a token that is
\* there, else `Authentication failed: ${error.message}`.
TokenOutcome(answer) ==
  CASE answer.k = "token" /\ answer.token.s # <<>> ->
         AuthHeaders(Header("Authorization", <<"Bearer", answer.token.s>>))
    [] answer.k \in {"token", "null"} ->
         AuthFailed("Failed to obtain token from credential provider")
    [] OTHER -> AuthFailed(answer.msg)

AuthInitial ==
  /\ authPc = "idle"
  /\ authResult = NoAuthResult
  /\ nAuth = 0
  /\ nTokenRequests = 0

\* getAuthHeaders up to its return or its await: the key when the
\* environment has one, else a token is requested.
GetAuthHeaders ==
  /\ authPc = "idle"
  /\ IF Truthy(apiKey)
     THEN /\ authResult' = AuthHeaders(Header("api-key", apiKey.s))
          /\ nAuth' = nAuth + 1
          /\ UNCHANGED <<authPc, nTokenRequests>>
     ELSE /\ authPc' = "awaiting"
          /\ nTokenRequests' = nTokenRequests + 1
          /\ UNCHANGED <<authResult, nAuth>>
  /\ UNCHANGED <<apiKey, provider>>

\* getAuthHeaders after the await: the provider has answered.
TokenSettles ==
  /\ authPc = "awaiting"
  /\ authResult' = TokenOutcome(provider)
  /\ authPc' = "idle"
  /\ nAuth' = nAuth + 1
  /\ UNCHANGED <<apiKey, provider, nTokenRequests>>

\* The platform: the provider's answer changes (the identity endpoint goes
\* away or comes back, the token is renewed).
ProviderChanges(answer) ==
  /\ answer # provider
  /\ provider' = answer
  /\ UNCHANGED <<apiKey, authPc, authResult, nAuth, nTokenRequests>>

\* ------------------------------------------------------------ actions
GatewayInit ==
  /\ sessions = <<>>
  /\ mcpConnections = [k \in {} |-> 0]
  /\ streams = <<>>
  /\ last = [req |-> NoRequest, replies |-> <<>>, writes |-> <<>>,
             tool |-> NoTool, conn |-> 0]
  /\ nPosts = 0
  /\ nTicks = 0

\* The gateway as deployed with a managed identity: no key in the
\* environment, the provider handing out tokens.
Init ==
  /\ GatewayInit
  /\ apiKey = Undef
  /\ provider = TokenAnswer("token", Str(<<"t1">>), "")
  /\ AuthInitial

\* GET /mcp/sse: a fresh connection id, the keep-alive interval, the
\* endpoint event, the registry entry and the close / error handlers.
SseOpen ==
  /\ Len(streams) < MaxStreams
  /\ LET h == Len(streams) + 1
         connectionId == ConnId(h)
     IN  /\ streams' = Append(streams, NewStream(connectionId))
         /\ mcpConnections' = Set(mcpConnections, connectionId, h)
  /\ UNCHANGED <<sessions, last, nPosts, nTicks>>

\* Mutant of PostMessage: a request whose tool threw tears its connection
\* down.
PostMessageTearsDown(req) ==
  /\ LET out == HandleMessage(mcpConnections, streams, req, sessions)
     IN  /\ sessions' = out.S
         /\ streams' = ApplyWrites(streams, out.writes)
         /\ last' = [req |-> req, replies |-> out.replies, writes |-> out.writes,
                     tool |-> out.tool, conn |-> out.conn]
         /\ mcpConnections' = IF out.tool.threw
                              THEN Delete(mcpConnections, req.sessionId)
                              ELSE mcpConnections
  /\ nPosts' = nPosts + 1
  /\ UNCHANGED nTicks

\* POST /mcp/message
PostMessage(req) ==
  /\ LET out == HandleMessage(mcpConnections, streams, req, sessions)
     IN  /\ sessions' = out.S
         /\ streams' = ApplyWrites(streams, out.writes)
         /\ last' = [req |-> req, replies |-> out.replies, writes |-> out.writes,
                     tool |-> out.tool, conn |-> out.conn]
  /\ nPosts' = nPosts + 1
  /\ UNCHANGED <<mcpConnections, nTicks>>

\* The setInterval callback: write a keep-alive comment; a write that
\* throws clears the interval.
KeepAliveTick(h) ==
  /\ streams[h].keepAlive
  /\ nTicks < MaxTicks
  /\ LET w == Write(streams, h, KeepAliveFrame)
     IN  streams' = IF w.outcome = "throws"
                    THEN [streams EXCEPT ![h].keepAlive = FALSE]
                    ELSE ApplyWrites(streams, <<w>>)
  /\ nTicks' = nTicks + 1
  /\ UNCHANGED <<sessions, mcpConnections, last, nPosts>>

\* Mutant of OnClose: the sessions go with the connection.
OnCloseDropsSessions(h) ==
  /\ ~streams[h].closeSeen
  /\ streams' = [streams EXCEPT ![h].state = "closed", ![h].keepAlive = FALSE,
                                ![h].closeSeen = TRUE]
  /\ mcpConnections' = Delete(mcpConnections, streams[h].id)
  /\ sessions' = <<>>
  /\ UNCHANGED <<last, nPosts, nTicks>>

\* Mutant of OnClose: the entry is deleted, the interval is left running.
OnCloseKeepsSchedule(h) ==
  /\ ~streams[h].closeSeen
  /\ streams' = [streams EXCEPT ![h].state = "closed", ![h].closeSeen = TRUE]
  /\ mcpConnections' = Delete(mcpConnections, streams[h].id)
  /\ UNCHANGED <<sessions, last, nPosts, nTicks>>

\* res.on('close'): clear the interval and delete the registry entry.
OnClose(h) ==
  /\ ~streams[h].closeSeen
  /\ streams' = [streams EXCEPT ![h].state = "closed", ![h].keepAlive = FALSE,
                                ![h].closeSeen = TRUE]
  /\ mcpConnections' = Delete(mcpConnections, streams[h].id)
  /\ UNCHANGED <<sessions, last, nPosts, nTicks>>

\* Mutant of OnError: the entry is deleted, the interval is left running.
OnErrorKeepsSchedule(h) ==
  /\ ~streams[h].errorSeen
  /\ streams[h].state # "open"
  /\ streams' = [streams EXCEPT ![h].errorSeen = TRUE]
  /\ mcpConnections' = Delete(mcpConnections, streams[h].id)
  /\ UNCHANGED <<sessions, last, nPosts, nTicks>>

\* res.on('error'): the same, for a stream the platform reports an error on.
OnError(h) ==
  /\ ~streams[h].errorSeen
  /\ streams[h].state # "open"
  /\ streams' = [streams EXCEPT ![h].keepAlive = FALSE, ![h].errorSeen = TRUE]
  /\ mcpConnections' = Delete(mcpConnections, streams[h].id)
  /\ UNCHANGED <<sessions, last, nPosts, nTicks>>

\* The platform: the transport of an open stream starts rejecting writes.
TransportFail(h) ==
  /\ streams[h].state = "open"
  /\ streams' = [streams EXCEPT ![h].state = "broken"]
  /\ UNCHANGED <<sessions, mcpConnections, last, nPosts, nTicks>>

\* The platform: an open stream is ended (res.writableEnded becomes true).
StreamEnd(h) ==
  /\ streams[h].state = "open"
  /\ streams' = [streams EXCEPT ![h].state = "ended"]
  /\ UNCHANGED <<sessions, mcpConnections, last, nPosts, nTicks>>

\* POST /session
RestCreateSession ==
  /\ sessions' = Append(sessions, NewSession(Sid(SessionCount(sessions) + 1)))
  /\ UNCHANGED <<mcpConnections, streams, last, nPosts, nTicks>>

\* POST /session/:sid/upload on an existing session
RestUpload(sid, title, text) ==
  /\ LookupKind(sessions, sid) = "own"
  /\ sessions' = PushDoc(sessions, OwnIndex(sessions, sid),
                         [id |-> DocId(DocCount(sessions) + 1), title |-> title,
                          text |-> text])
  /\ UNCHANGED <<mcpConnections, streams, last, nPosts, nTicks>>

\* A run is followed until it has served MaxPosts messages, and while the
\* session store holds at most MaxSessions sessions and MaxDocs documents.
Serving == nPosts < MaxPosts

InBounds(S) == SessionCount(S) <= MaxSessions /\ DocCount(S) <= MaxDocs

Next ==
  \/ Serving /\ SseOpen /\ UNCHANGED authVars
  \/ Serving /\ \E req \in Requests : PostMessage(req) /\ InBounds(sessions') /\ UNCHANGED authVars
  \/ Serving /\ \E h \in 1..Len(streams) : KeepAliveTick(h) /\ UNCHANGED authVars
  \/ Serving /\ \E h \in 1..Len(streams) : OnClose(h) /\ UNCHANGED authVars
  \/ Serving /\ \E h \in 1..Len(streams) : OnError(h) /\ UNCHANGED authVars
  \/ Serving /\ \E h \in 1..Len(streams) : TransportFail(h) /\ UNCHANGED authVars
  \/ Serving /\ \E h \in 1..Len(streams) : StreamEnd(h) /\ UNCHANGED authVars
  \/ Serving /\ RestCreateSession /\ InBounds(sessions') /\ UNCHANGED authVars
  \/ Serving /\ \E sid \in SidValues, text \in TextValues :
                  RestUpload(sid, Str(<<"b">>), text) /\ InBounds(sessions') /\ UNCHANGED authVars

Spec == Init /\ [][Next]_vars

\* The life of the connections: the same handlers with a few requests,
\* where the platform goes on delivering close and error notifications
\* after the last message, and delivers the close notification of every
\* stream it has opened (Node emits 'close' once for each response).
LifeRequests ==
  {Request(c, <<>>, Body(1, m, FALSE, Undef, NoArgs)) :
     c \in SessionIdParams, m \in {"initialize", "ping"}}

Closes(h) == h \in 1..Len(streams) /\ OnClose(h) /\ UNCHANGED authVars

NextLife ==
  \/ Serving /\ SseOpen /\ UNCHANGED authVars
  \/ Serving /\ \E req \in LifeRequests : PostMessage(req) /\ InBounds(sessions') /\ UNCHANGED authVars
  \/ Serving /\ \E h \in 1..Len(streams) : KeepAliveTick(h) /\ UNCHANGED authVars
  \/ \E h \in 1..MaxStreams : Closes(h)
  \/ \E h \in 1..Len(streams) : OnError(h) /\ UNCHANGED authVars
  \/ Serving /\ \E h \in 1..Len(streams) : TransportFail(h) /\ UNCHANGED authVars
  \/ Serving /\ \E h \in 1..Len(streams) : StreamEnd(h) /\ UNCHANGED authVars

LifeSpec ==
  Init /\ [][NextLife]_vars /\ \A h \in 1..MaxStreams : WF_vars(Closes(h))

\* ------------------------------------------------------------ session store runs
\* Runs over the session store: one connection, tool calls with documents
\* short and long, with a title or a text left out, and with text whose
\* lower case is longer than the text.
Pad(n, c) == [i \in 1..n |-> c]

ShortDoc == [title |-> Str(<<"b">>), text |-> Str(<<"a", "B">>)]

StoreDocs ==
  { ShortDoc,
    [title |-> Str(<<"t">>), text |-> Str(Pad(51, "x") \o <<"q">> \o Pad(51, "x"))],
    [title |-> Str(<<"t">>), text |-> Str(Pad(51, "Idot") \o <<"q">>)],
    [title |-> Str(<<"b">>), text |-> Undef],
    [title |-> Undef, text |-> Str(<<"a", "B">>)] }

StoreSids == {Str(Sid(n)) : n \in 1..MaxStoreSessions}

StoreCalls ==
  {[name |-> Str(<<"create_session">>), args |-> Args(Undef, Undef, Undef, Undef, Undef)]}
    \cup {[name |-> Str(<<"upload_document">>),
           args |-> Args(sid, Undef, Undef, d.title, d.text)] :
            sid \in StoreSids, d \in StoreDocs}
    \cup {[name |-> Str(<<"list_documents">>),
           args |-> Args(sid, Undef, Undef, Undef, Undef)] :
            sid \in StoreSids \cup {Str(Sid(MaxStoreSessions + 1))}}
    \cup {[name |-> Str(<<"get_document">>),
           args |-> Args(sid, Str(DocId(n)), Undef, Undef, Undef)] :
            sid \in StoreSids, n \in 1..(MaxStoreDocs + 1)}
    \cup {[name |-> Str(<<"search_documents">>),
           args |-> Args(sid, Undef, Str(<<q>>), Undef, Undef)] :
            sid \in {Undef, Str(Sid(1)), Str(Sid(MaxStoreSessions + 1)),
                     Str(<<"constructor">>)},
            q \in {"B", "q", "t", "z"}}

StoreRequests == {Request(ConnId(1), <<>>, b) : b \in ToolBodies({1}, StoreCalls)}

StoreInBounds(S) ==
  SessionCount(S) <= MaxStoreSessions /\ DocCount(S) <= MaxStoreDocs

StoreServing == nPosts < MaxStorePosts

StoreNext ==
  \/ StoreServing /\ Len(streams) < 1 /\ SseOpen /\ UNCHANGED authVars
  \/ StoreServing /\ \E req \in StoreRequests :
                       PostMessage(req) /\ StoreInBounds(sessions') /\ UNCHANGED authVars
  \/ StoreServing /\ \E h \in 1..Len(streams) : KeepAliveTick(h) /\ UNCHANGED authVars
  \/ StoreServing /\ RestCreateSession /\ StoreInBounds(sessions') /\ UNCHANGED authVars
  \/ StoreServing /\ \E sid \in StoreSids :
                       RestUpload(sid, ShortDoc.title, ShortDoc.text)
                       /\ StoreInBounds(sessions') /\ UNCHANGED authVars

StoreSpec == Init /\ [][StoreNext]_vars

\* ------------------------------------------------------------ runs over two connections
\* Several messages on two connections, in any order and with the streams
\* failing and closing in between: the handshake, the tool list, a
\* method that is not there, and tool calls on one session, which either
\* connection or the REST endpoints may have created.
CrossCalls ==
  {[name |-> Str(<<"create_session">>), args |-> Args(Undef, Undef, Undef, Undef, Undef)],
   [name |-> Str(<<"upload_document">>),
    args |-> Args(Str(Sid(1)), Undef, Undef, ShortDoc.title, ShortDoc.text)],
   [name |-> Str(<<"list_documents">>),
    args |-> Args(Str(Sid(1)), Undef, Undef, Undef, Undef)],
   [name |-> Str(<<"get_document">>),
    args |-> Args(Str(Sid(1)), Str(DocId(1)), Undef, Undef, Undef)]}

CrossBodies ==
  {Body(1, m, FALSE, Undef, NoArgs) : m \in {"initialize", "tools/list", "ping"}}

CrossRequests ==
  {Request(ConnId(n), a, b) :
     n \in 1..MaxStreams, a \in AcceptHeaders, b \in CrossBodies}
    \cup {Request(ConnId(n), <<>>, b) :
            n \in 1..MaxStreams, b \in ToolBodies({1}, CrossCalls)}

CrossInBounds(S) ==
  SessionCount(S) <= MaxCrossSessions /\ DocCount(S) <= MaxCrossDocs

CrossServing == nPosts < MaxCrossPosts

CrossNext ==
  \/ CrossServing /\ SseOpen /\ UNCHANGED authVars
  \/ CrossServing /\ \E req \in CrossRequests :
                       PostMessage(req) /\ CrossInBounds(sessions') /\ UNCHANGED authVars
  \/ CrossServing /\ \E h \in 1..Len(streams) : OnClose(h) /\ UNCHANGED authVars
  \/ CrossServing /\ \E h \in 1..Len(streams) : OnError(h) /\ UNCHANGED authVars
  \/ CrossServing /\ \E h \in 1..Len(streams) : TransportFail(h) /\ UNCHANGED authVars
  \/ CrossServing /\ RestCreateSession /\ CrossInBounds(sessions') /\ UNCHANGED authVars
  \/ CrossServing /\ RestUpload(Str(Sid(1)), ShortDoc.title, ShortDoc.text)
                  /\ CrossInBounds(sessions') /\ UNCHANGED authVars

CrossSpec == Init /\ [][CrossNext]_vars

\* ------------------------------------------------------------ runs with setup failures
\* createMCPServer (mcp-handler.js) is called between the endpoint event
\* and the registration: it returns the server object or throws.
CreateMCPServerOutcomes == {"returns", "throws"}

\* res.headersSent: the first write on a response sends its headers.
HeadersSent(stream) == stream.frames # <<>>

\* The stream the catch of GET /mcp/sse leaves behind: the interval is
\* cleared, and the 500 response is sent (ending the stream) only when no
\* header has gone out yet.
AfterSetupFailure(stream) ==
  IF HeadersSent(stream)
  THEN [stream EXCEPT !.keepAlive = FALSE]
  ELSE [stream EXCEPT !.keepAlive = FALSE, !.state = "ended"]

\* GET /mcp/sse where createMCPServer throws: the endpoint event has been
\* written, nothing is registered and no close / error handler is attached.
SseOpenFails ==
  /\ Len(streams) < MaxStreams
  /\ LET connectionId == ConnId(Len(streams) + 1)
     IN  streams' = Append(streams, AfterSetupFailure(NewStream(connectionId)))
  /\ UNCHANGED <<sessions, mcpConnections, last, nPosts, nTicks>>

\* The close / error handlers of stream h were attached: its id is
\* registered, or was until one of them ran.
Listening(h) ==
  \/ streams[h].id \in DOMAIN mcpConnections
  \/ streams[h].closeSeen
  \/ streams[h].errorSeen

SetupNext ==
  \/ Serving /\ \E outcome \in CreateMCPServerOutcomes :
                  /\ IF outcome = "returns" THEN SseOpen ELSE SseOpenFails
                  /\ UNCHANGED authVars
  \/ Serving /\ \E req \in LifeRequests : PostMessage(req) /\ UNCHANGED authVars
  \/ Serving /\ \E h \in 1..Len(streams) : KeepAliveTick(h) /\ UNCHANGED authVars
  \/ Serving /\ \E h \in 1..Len(streams) :
                  Listening(h) /\ OnClose(h) /\ UNCHANGED authVars
  \/ Serving /\ \E h \in 1..Len(streams) :
                  Listening(h) /\ OnError(h) /\ UNCHANGED authVars
  \/ Serving /\ \E h \in 1..Len(streams) : TransportFail(h) /\ UNCHANGED authVars

SetupSpec == Init /\ [][SetupNext]_vars

\* ------------------------------------------------------------ authentication runs
\* Runs over getAuthHeaders: any environment and any provider to begin
\* with, calls one after the other, the provider changing in between and
\* while a call awaits its token.
AuthInit ==
  /\ GatewayInit
  /\ apiKey \in ApiKeys
  /\ provider \in Providers
  /\ AuthInitial

AuthServing == nAuth < MaxAuthCalls

AuthNext ==
  \/ AuthServing /\ GetAuthHeaders /\ UNCHANGED gatewayVars
  \/ TokenSettles /\ UNCHANGED gatewayVars
  \/ AuthServing /\ \E answer \in Providers : ProviderChanges(answer)
                 /\ UNCHANGED gatewayVars

AuthSpec == AuthInit /\ [][AuthNext]_vars

\* ------------------------------------------------------------ properties
\* A step that serves one POST /mcp/message: `last'` is what it did, the
\* unprimed variables are the state it found.
PostStep == nPosts' = nPosts + 1

\* The Accept header names the event-stream media type.
AcceptsEventStream(accept) == "text/event-stream" \in {accept[i] : i \in DOMAIN accept}

\* The stream whose endpoint event advertised id.
Advertised(h, id) == streams[h].frames[1] = Frame("endpoint", id, NoEnvelope)

Notified(h) == streams[h].closeSeen \/ streams[h].errorSeen

IsNotFoundReply(r) ==
  /\ r.status = 404
  /\ r.ctype = "json"
  /\ r.env.jsonrpc = "2.0"
  /\ r.env.error.code = -32001
  /\ r.env.result = AbsentResult

\* C1: after GET /mcp/sse has registered id X for a stream, a POST with
\* sessionId=X served before that stream's close or error notification
\* resolves to that stream (and writes to no other); one served after the
\* notification is answered with the connection-not-found fault.
C1_ResolvesUntilNotified ==
  [][PostStep =>
       \A h \in 1..Len(streams) :
         Advertised(h, last'.req.sessionId) =>
           IF ~Notified(h)
           THEN /\ last'.conn = h
                /\ \A i \in 1..Len(last'.writes) : last'.writes[i].to = h
           ELSE /\ last'.conn = 0
                /\ Len(last'.replies) = 1
                /\ IsNotFoundReply(last'.replies[1])]_vars

\* A POST on the id of a stream whose close notification has been
\* delivered, answered 404, while the other stream is still registered.
C1_Witness ==
  /\ Len(streams) = 2
  /\ streams[1].closeSeen
  /\ ~streams[2].closeSeen /\ ~streams[2].errorSeen
  /\ last.req.sessionId = streams[1].id
  /\ last.replies # <<>>
  /\ last.replies[1].status = 404

\* C2: a POST whose sessionId is not registered gets, whatever its method,
\* HTTP 404 with the JSON-RPC connection-not-found error inline; no frame
\* is written to any stream, no tool runs, and neither the session store
\* nor the registry changes.
C2_UnresolvedIsRejected ==
  [][PostStep /\ last'.req.sessionId \notin DOMAIN mcpConnections =>
       /\ Len(last'.replies) = 1
       /\ IsNotFoundReply(last'.replies[1])
       /\ last'.replies[1].env.id = last'.req.body.id
       /\ last'.writes = <<>>
       /\ streams' = streams
       /\ ~last'.tool.ran
       /\ sessions' = sessions
       /\ mcpConnections' = mcpConnections]_vars

\* A tools/call for create_session on an unregistered id while another
\* connection is registered and a session exists.
C2_Witness ==
  /\ last.replies # <<>>
  /\ last.req.sessionId = "nonexistent"
  /\ last.req.body.method = "tools/call"
  /\ last.req.body.name = Str(<<"create_session">>)
  /\ last.replies[1].status = 404
  /\ DOMAIN mcpConnections # {}
  /\ Len(sessions) = 1

\* The step appended exactly the frame f to stream h and left every other
\* stream as it was.
AppendedOne(h, f) ==
  /\ Len(streams') = Len(streams)
  /\ streams'[h] = [streams[h] EXCEPT !.frames = Append(@, f)]
  /\ \A g \in 1..Len(streams) : g # h => streams'[g] = streams[g]

\* The frame a step appended to stream h (its last one).
LastFrame(h) == streams'[h].frames[Len(streams'[h].frames)]

\* e is the JSON-RPC response to the initialize or tools/list request req.
IsCatalogueResponse(e, req) ==
  /\ e.jsonrpc = "2.0"
  /\ e.id = req.body.id
  /\ e.error = AbsentError
  /\ e.result.t = req.body.method
  /\ req.body.method = "initialize" => e.result.protocolVersion = "2024-11-05"
  /\ req.body.method = "tools/list" => Len(e.result.tools) = 5

CatalogueMethods == {"initialize", "tools/list"}

PushedCatalogueResponse(h) ==
  /\ Len(streams'[h].frames) = Len(streams[h].frames) + 1
  /\ LastFrame(h).event = "message"
  /\ IsCatalogueResponse(LastFrame(h).env, last'.req)
  /\ AppendedOne(h, LastFrame(h))

CatalogueReply(h) ==
  /\ Len(last'.replies) = 1
  /\ IF AcceptsEventStream(last'.req.accept)
     THEN last'.replies[1] = Reply(202, "empty", NoEnvelope, "")
     ELSE /\ last'.replies[1].status = 200
          /\ last'.replies[1].ctype = "json"
          /\ IsCatalogueResponse(last'.replies[1].env, last'.req)
          /\ last'.replies[1].env = LastFrame(h).env

IsToolResponse(e, req) ==
  /\ e.jsonrpc = "2.0"
  /\ e.id = req.body.id
  /\ e.error = AbsentError
  /\ e.result.t = "tool"
  /\ Len(e.result.content) = 1
  /\ e.result.content[1].type = "text"

PushedToolResponse(h) ==
  /\ Len(streams'[h].frames) = Len(streams[h].frames) + 1
  /\ LastFrame(h).event = "message"
  /\ IsToolResponse(LastFrame(h).env, last'.req)
  /\ AppendedOne(h, LastFrame(h))

\* C5: a tools/call whose tool succeeds, on a resolved connection with a
\* live stream, is delivered exactly once: one message frame with the
\* response on that connection's stream, and a POST response that is the
\* acknowledgment {acknowledged: true} and carries no JSON-RPC payload.
C5_SuccessDeliveredOnce ==
  [][/\ PostStep
     /\ last'.conn # 0
     /\ last'.req.body.method = "tools/call"
     /\ last'.tool.ran /\ ~last'.tool.threw
     /\ streams[last'.conn].state = "open"
     => /\ PushedToolResponse(last'.conn)
        /\ ~LastFrame(last'.conn).env.result.isError
        /\ last'.replies = <<Reply(200, "json", NoEnvelope, "acknowledged")>>]_vars

\* get_document of a stored document, acknowledged on the POST with the
\* document on the stream.
C5_Witness ==
  /\ last.conn # 0
  /\ last.req.body.name = Str(<<"get_document">>)
  /\ last.tool.ran /\ ~last.tool.threw
  /\ last.replies # <<>>
  /\ last.replies[1].note = "acknowledged"
  /\ streams[last.conn].frames[Len(streams[last.conn].frames)].env.result.t = "tool"

\* C6 as stated: every tools/call on a resolved connection with a live
\* stream whose tool ran, also one whose tool failed, puts a message frame
\* with its response on the connection's SSE stream.
C6_Original ==
  [][/\ PostStep
     /\ last'.conn # 0
     /\ last'.req.body.method = "tools/call"
     /\ last'.tool.ran
     /\ streams[last'.conn].state = "open"
     => PushedToolResponse(last'.conn)]_vars

\* The sessionId of the POST has no live stream: no registry entry, or a
\* stream that is ended or rejects writes.
NotLive(id) == \/ id \notin DOMAIN mcpConnections
               \/ streams[mcpConnections[id]].state # "open"

\* C7: a tools/call whose connection has no live stream at delivery time
\* gets its full JSON-RPC response inline on the POST; nothing is written
\* to any stream and the POST is never answered with the acknowledgment.
C7_InlineWhenNotLive ==
  [][/\ PostStep
     /\ last'.req.body.method = "tools/call"
     /\ NotLive(last'.req.sessionId)
     => /\ streams' = streams
        /\ Len(last'.replies) = 1
        /\ last'.replies[1].note # "acknowledged"
        /\ last'.replies[1].env # NoEnvelope
        /\ last'.replies[1].env.id = last'.req.body.id
        /\ last'.tool.ran => IsToolResponse(last'.replies[1].env, last'.req)
        /\ last'.tool.ran /\ ~last'.tool.threw =>
             last'.replies[1] = Reply(200, "json", last'.replies[1].env, "")]_vars

\* create_session on a connection whose stream has ended: the session is
\* created and its id comes back on the POST.
C7_Witness ==
  /\ last.conn # 0
  /\ streams[last.conn].state = "ended"
  /\ last.req.body.name = Str(<<"create_session">>)
  /\ last.tool.ran /\ ~last.tool.threw
  /\ last.replies[1].env.result.t = "tool"
  /\ Len(sessions) = 1

\* C8 as stated: every failing tools/call on a resolved connection (a tool
\* that throws, or a request without params) is answered with HTTP success
\* and a JSON-RPC result with isError: true and a text block; the error
\* field is not used.
C8_Original ==
  [][/\ PostStep
     /\ last'.conn # 0
     /\ last'.req.body.method = "tools/call"
     /\ ~last'.req.body.hasParams \/ last'.tool.threw
     => /\ Len(last'.replies) = 1
        /\ last'.replies[1].status = 200
        /\ IsToolResponse(last'.replies[1].env, last'.req)
        /\ last'.replies[1].env.result.isError]_vars

\* The envelopes a handler produced: on the POST and in the frames it
\* passed to a stream write.
Emitted(l) ==
  ({l.replies[i].env : i \in DOMAIN l.replies} \ {NoEnvelope})
    \cup {l.writes[i].frame.env : i \in DOMAIN l.writes}

KnownMethods == {"initialize", "tools/list", "tools/call"}

IsMethodNotFound(e, req) ==
  /\ e.jsonrpc = "2.0"
  /\ e.id = req.body.id
  /\ e.result = AbsentResult
  /\ e.error.code = -32601
  /\ e.error.message = "Method not found"
  /\ e.error.arg = req.body.method

MethodNotFoundOnly ==
  /\ Emitted(last') # {}
  /\ \A e \in Emitted(last') : IsMethodNotFound(e, last'.req)
  /\ ~last'.tool.ran
  /\ sessions' = sessions

StreamWriteThrows(l) ==
  /\ ~AcceptsEventStream(l.req.accept)
  /\ streams[l.conn].state = "broken"

C10_Original ==
  [][/\ PostStep
     /\ last'.conn # 0
     /\ last'.req.body.method \notin KnownMethods
     /\ streams[last'.conn].state = "open"
     => /\ Len(streams'[last'.conn].frames) = Len(streams[last'.conn].frames) + 1
        /\ IsMethodNotFound(LastFrame(last'.conn).env, last'.req)
        /\ IF AcceptsEventStream(last'.req.accept)
           THEN last'.replies = <<Reply(202, "empty", NoEnvelope, "")>>
           ELSE /\ Len(last'.replies) = 1
                /\ IsMethodNotFound(last'.replies[1].env, last'.req)]_vars

\* A body that is no well-formed JSON-RPC request: the version tag is
\* missing or is not "2.0", or there is no method.
Malformed(body) == body.jsonrpc # "2.0" \/ body.method = NoMethod

\* The error codes of the other protocol faults.
OtherFaultCodes == {-32001, -32601, -32603}

\* C11 as stated: a POST on a resolved connection whose body is no
\* well-formed JSON-RPC request is rejected with a JSON-RPC error whose
\* code is none of the connection-not-found, method-not-found and
\* internal-fault codes, with the request's id; no method handler produces
\* a result for it.
C11_Original ==
  [][PostStep /\ last'.conn # 0 /\ Malformed(last'.req.body) =>
       /\ Emitted(last') # {}
       /\ \A e \in Emitted(last') :
            /\ e.result = AbsentResult
            /\ e.error # AbsentError
            /\ e.error.code \notin OtherFaultCodes
            /\ e.id = last'.req.body.id]_vars

\* The handler of the request l.req raises outside the tool's try block:
\* the write of an initialize, tools/list or method-not-found frame to a
\* stream whose transport rejects writes, or the reading of the params of
\* a tools/call that has none.
RaisesOutsideTool(l) ==
  \/ /\ l.req.body.method \in CatalogueMethods
     /\ streams[l.conn].state = "broken"
  \/ /\ l.req.body.method \notin KnownMethods
     /\ StreamWriteThrows(l)
  \/ /\ l.req.body.method = "tools/call"
     /\ ~l.req.body.hasParams

IsInternalFault(r, req) ==
  /\ r.status = 500
  /\ r.ctype = "json"
  /\ r.env.jsonrpc = "2.0"
  /\ r.env.id = req.body.id
  /\ r.env.result = AbsentResult
  /\ r.env.error.code = -32603

\* C12: an exception raised while a POST on a resolved connection is
\* handled, outside the tool's own try block, is answered with HTTP 500
\* and the JSON-RPC internal error (-32603) with the request's id; the
\* step leaves the registry, the streams and the session store as they
\* were, so that later requests on this and on other connections are
\* served as they would have been.
C12_FaultIsInternalError ==
  [][PostStep /\ last'.conn # 0 /\ RaisesOutsideTool(last') =>
       /\ Len(last'.replies) = 1
       /\ IsInternalFault(last'.replies[1], last'.req)
       /\ ~last'.tool.ran
       /\ mcpConnections' = mcpConnections
       /\ streams' = streams
       /\ sessions' = sessions]_vars

\* An initialize with an id on the first connection, whose transport
\* rejects the write, answered 500 while both connections are registered.
C12_Witness ==
  /\ last.conn = 1
  /\ streams[1].state = "broken"
  /\ last.req.body.method = "initialize"
  /\ last.req.body.id = 1
  /\ last.replies # <<>>
  /\ last.replies[1].status = 500
  /\ last.replies[1].env.error.code = -32603
  /\ Cardinality(DOMAIN mcpConnections) = 2

\* C13: every POST /mcp/message is answered exactly once by the step that
\* handles it, on every path (unresolved connection, initialize,
\* tools/list, tools/call with a tool that returns or throws, unknown
\* method, internal fault) and for either kind of Accept header.
C13_AnsweredExactlyOnce ==
  [][PostStep => Len(last'.replies) = 1]_vars

\* A tools/call whose tool threw, from a client that accepts event-stream:
\* the one response is the event-stream frame on the POST.
C13_Witness ==
  /\ last.conn # 0
  /\ last.tool.ran /\ last.tool.threw
  /\ AcceptsEventStream(last.req.accept)
  /\ Len(last.replies) = 1
  /\ last.replies[1].ctype = "sse"
  /\ last.replies[1].env.result.isError

\* A step in which a write to stream h throws: the keep-alive callback of
\* h (it clears its interval) or a frame written by the POST handler.
WriteFailedOn(h) ==
  \/ /\ nTicks' = nTicks + 1
     /\ streams[h].state = "broken"
     /\ streams[h].keepAlive /\ ~streams'[h].keepAlive
  \/ /\ PostStep
     /\ \E i \in DOMAIN last'.writes :
          last'.writes[i].to = h /\ last'.writes[i].outcome = "throws"

\* C14 as stated: whenever a write to a connection's stream fails (a
\* keep-alive or a message frame), that connection's keep-alive schedule
\* is cancelled and its id is removed from the registry by the same step,
\* without waiting for a close notification.
C14_Original ==
  [][\A h \in 1..Len(streams) :
       WriteFailedOn(h) =>
         /\ ~streams'[h].keepAlive
         /\ streams[h].id \notin DOMAIN mcpConnections']_vars

\* A step that delivers a close or an error notification for stream h.
NotifiedNow(h) ==
  \/ ~streams[h].closeSeen /\ streams'[h].closeSeen
  \/ ~streams[h].errorSeen /\ streams'[h].errorSeen

\* Stream h is there and is no longer live: ended, rejecting writes, or
\* destroyed.
Dead(h) == h \in 1..Len(streams) /\ streams[h].state # "open"

Unregistered(h) ==
  h \in 1..Len(streams) /\ streams[h].id \notin DOMAIN mcpConnections

\* C15: a close or error notification for a stream cancels the keep-alive
\* schedule of its connection and removes its id from the registry; once
\* notified, the stream has no schedule and gets no further frame; and,
\* the platform delivering the close notification of every stream, a
\* stream that is no longer live is eventually unregistered.
C15_NotifiedIsUnregistered ==
  /\ [][\A h \in 1..Len(streams) :
          /\ NotifiedNow(h) =>
               /\ ~streams'[h].keepAlive
               /\ streams[h].id \notin DOMAIN mcpConnections'
          /\ Notified(h) =>
               /\ ~streams[h].keepAlive
               /\ streams[h].id \notin DOMAIN mcpConnections
               /\ streams'[h].frames = streams[h].frames]_vars
  /\ \A h \in 1..MaxStreams : Dead(h) ~> Unregistered(h)

\* The second stream's transport failed after a keep-alive was written on
\* it, the error notification came, and its id is gone while the first
\* connection is still registered.
C15_Witness ==
  /\ Len(streams) = 2
  /\ streams[2].errorSeen /\ ~streams[2].closeSeen
  /\ streams[2].state = "broken"
  /\ Len(streams[2].frames) = 2
  /\ ~streams[2].keepAlive
  /\ DOMAIN mcpConnections = {streams[1].id}

\* C16: under every interleaving of keep-alive ticks, POSTs and close /
\* error notifications, a stream whose id is no longer in the registry has
\* no keep-alive schedule (no tick fires for it), no POST attempts a write
\* on it, and no frame is added to it.
C16_NoWriteAfterRemoval ==
  [][\A h \in 1..Len(streams) :
       streams[h].id \notin DOMAIN mcpConnections =>
         /\ ~streams[h].keepAlive
         /\ streams'[h].frames = streams[h].frames
         /\ PostStep => \A i \in DOMAIN last'.writes : last'.writes[i].to # h]_vars

\* The first connection was removed before any keep-alive reached it; the
\* tick went to the second stream and a POST on the removed id was turned
\* away without a write.
C16_Witness ==
  /\ Len(streams) = 2
  /\ streams[1].closeSeen
  /\ streams[1].id \notin DOMAIN mcpConnections
  /\ Len(streams[1].frames) = 1
  /\ nTicks = 1
  /\ Len(streams[2].frames) = 2
  /\ last.req.sessionId = streams[1].id
  /\ last.req.body.method = "initialize"
  /\ last.writes = <<>>
  /\ last.replies # <<>>

\* The registry after the step is the registry before it without id.
RemovedOnly(id) ==
  /\ DOMAIN mcpConnections' = DOMAIN mcpConnections \ {id}
  /\ \A k \in DOMAIN mcpConnections' : mcpConnections'[k] = mcpConnections[k]

\* C17: removal from the registry is idempotent. A close or error
\* notification removes the id of its own stream and nothing else; when
\* the other notification of the same stream comes later, in either
\* order, the registry stays exactly as the first one left it.
C17_RemovalIdempotent ==
  [][\A h \in 1..Len(streams) :
       NotifiedNow(h) =>
         /\ RemovedOnly(streams[h].id)
         /\ Notified(h) => mcpConnections' = mcpConnections]_vars

\* Both notifications of the first stream have been delivered and the
\* second connection is still registered.
C17_Witness ==
  /\ Len(streams) = 2
  /\ streams[1].closeSeen /\ streams[1].errorSeen
  /\ ~Notified(2)
  /\ DOMAIN mcpConnections = {streams[2].id}
  /\ mcpConnections[streams[2].id] = 2

\* C18: a step that handles a POST /mcp/message leaves the registry as it
\* was, whatever the method and the outcome; an id enters the registry
\* only in the step that opens its stream, leaves it only in a step that
\* delivers a close or error notification of its own stream, and maps to
\* the same stream for as long as it stays.
C18_RegistryFrame ==
  [][/\ PostStep => mcpConnections' = mcpConnections
     /\ \A id \in DOMAIN mcpConnections' \ DOMAIN mcpConnections :
          /\ Len(streams') = Len(streams) + 1
          /\ streams'[Len(streams')].id = id
          /\ mcpConnections'[id] = Len(streams')
     /\ \A id \in DOMAIN mcpConnections \ DOMAIN mcpConnections' :
          /\ streams[mcpConnections[id]].id = id
          /\ NotifiedNow(mcpConnections[id])
     /\ \A id \in DOMAIN mcpConnections \cap DOMAIN mcpConnections' :
          mcpConnections'[id] = mcpConnections[id]]_vars

\* A tools/call whose tool threw on the first connection, a stream that
\* has ended: both connections are still registered.
C18_Witness ==
  /\ Len(streams) = 2
  /\ last.conn = 1
  /\ last.tool.ran /\ last.tool.threw
  /\ streams[1].state = "ended"
  /\ DOMAIN mcpConnections = {streams[1].id, streams[2].id}

\* Every registered id maps to the stream that advertised it, and no two
\* streams advertised the same id.
OneStreamPerId ==
  /\ \A id \in DOMAIN mcpConnections :
       /\ mcpConnections[id] \in 1..Len(streams)
       /\ streams[mcpConnections[id]].id = id
       /\ Advertised(mcpConnections[id], id)
  /\ \A g, h \in 1..Len(streams) : g # h => streams[g].id # streams[h].id

\* C19: the id registered by a step that opens a stream is not in the
\* registry before the step, so opening a stream never replaces an entry;
\* the registry maps each id to the one stream that advertised it, and a
\* notification of a stream removes no entry of another stream.
C19_NoIdReuse ==
  /\ []OneStreamPerId
  /\ [][/\ Len(streams') = Len(streams) + 1 =>
            /\ streams'[Len(streams')].id \notin DOMAIN mcpConnections
            /\ \A k \in DOMAIN mcpConnections :
                 /\ k \in DOMAIN mcpConnections'
                 /\ mcpConnections'[k] = mcpConnections[k]
        /\ \A h \in 1..Len(streams) :
             NotifiedNow(h) =>
               \A k \in DOMAIN mcpConnections \ DOMAIN mcpConnections' :
                 mcpConnections[k] = h]_vars

\* The first stream was closed and a second one is registered under an id
\* of its own.
C19_Witness ==
  /\ Len(streams) = 2
  /\ streams[1].closeSeen /\ ~streams[1].errorSeen
  /\ streams[2].state = "open"
  /\ streams[1].id # streams[2].id
  /\ DOMAIN mcpConnections = {streams[2].id}
  /\ nPosts = 0

\* The request is a tools/call that names the tool.
Calls(req, tool) ==
  /\ req.body.method = "tools/call"
  /\ req.body.hasParams
  /\ req.body.name = [k |-> "string", s |-> <<tool>>]

\* The ids of the sessions of a store.
SessionIds(S) == {S[i].id : i \in 1..Len(S)}

\* C20: every tools/call for create_session on a resolved connection
\* succeeds (isError: false); the id it returns is the id of no session
\* created before, by the tool or by POST /session; the store gains one
\* entry under that id with no documents and no history, and every
\* session that was there stays as it was.
C20_CreateSessionFresh ==
  [][PostStep /\ last'.conn # 0 /\ Calls(last'.req, "create_session") =>
       /\ last'.tool.ran /\ ~last'.tool.threw
       /\ Len(sessions') = Len(sessions) + 1
       /\ \A i \in 1..Len(sessions) : sessions'[i] = sessions[i]
       /\ LET new == sessions'[Len(sessions')]
          IN  /\ new.id \notin SessionIds(sessions)
              /\ new.docs = <<>>
              /\ new.history = <<>>
              /\ Emitted(last') # {}
              /\ \A e \in Emitted(last') :
                   /\ IsToolResponse(e, last'.req)
                   /\ ~e.result.isError
                   /\ e.result.content[1].text.sessionId
                        = [k |-> "string", s |-> new.id]]_vars

\* A session created by POST /session holds a document; create_session
\* then added a second, empty one under another id.
C20_Witness ==
  /\ last.conn # 0
  /\ Calls(last.req, "create_session")
  /\ Len(sessions) = 2
  /\ Len(sessions[1].docs) = 1
  /\ sessions[2].docs = <<>>
  /\ sessions[1].id # sessions[2].id
  /\ last.tool.ran /\ ~last.tool.threw

\* The position in store S of the session whose id is the string v (0
\* when there is none).
SessionAt(S, v) ==
  IF v.k = "string" /\ \E i \in 1..Len(S) : S[i].id = v.s
  THEN CHOOSE i \in 1..Len(S) : S[i].id = v.s
  ELSE 0

\* The ids of all documents of a store.
DocIds(S) == UNION {{S[i].docs[j].id : j \in 1..Len(S[i].docs)} : i \in 1..Len(S)}

\* The arguments of a call that names a session, and a document in it.
SessionArgs(sid) == Args(sid, Undef, Undef, Undef, Undef)
DocArgs(sid, docId) == Args(sid, docId, Undef, Undef, Undef)

\* C21: upload_document with a title and a text on an existing session
\* appends exactly one document at the end of that session's list, under
\* an id no document had, and returns that id; get_document with that
\* session and id then returns the uploaded title and text; and where
\* list_documents reported a count before the upload, it reports that
\* count plus one after it.
C21_UploadThenRead ==
  [][/\ PostStep
     /\ last'.conn # 0
     /\ Calls(last'.req, "upload_document")
     /\ last'.req.body.args.title.k = "string"
     /\ last'.req.body.args.text.k = "string"
     /\ SessionAt(sessions, last'.req.body.args.sessionId) > 0
     => LET a == last'.req.body.args
            i == SessionAt(sessions, a.sessionId)
            new == sessions'[i].docs[Len(sessions'[i].docs)]
            got == GetDocument(sessions', DocArgs(a.sessionId, [k |-> "string", s |-> new.id]))
            before == ListDocuments(sessions, SessionArgs(a.sessionId))
            after == ListDocuments(sessions', SessionArgs(a.sessionId))
        IN  /\ last'.tool.ran /\ ~last'.tool.threw
            /\ Len(sessions') = Len(sessions)
            /\ \A k \in 1..Len(sessions) : k # i => sessions'[k] = sessions[k]
            /\ sessions'[i].id = sessions[i].id
            /\ sessions'[i].docs = Append(sessions[i].docs, new)
            /\ new.id \notin DocIds(sessions)
            /\ new.title = a.title /\ new.text = a.text
            /\ \A e \in Emitted(last') :
                 /\ ~e.result.isError
                 /\ e.result.content[1].text.docId = new.id
            /\ ~got.threw
            /\ got.payload.id = new.id
            /\ got.payload.title = a.title
            /\ got.payload.text = a.text
            /\ ~before.threw =>
                 /\ ~after.threw
                 /\ after.payload.documentCount = before.payload.documentCount + 1]_vars

\* The second document of the first session, a long text, uploaded by the
\* tool after another document, while a second session exists.
C21_Witness ==
  /\ last.conn # 0
  /\ Calls(last.req, "upload_document")
  /\ last.tool.ran /\ ~last.tool.threw
  /\ Len(sessions) = 2
  /\ Len(sessions[1].docs) = 2
  /\ sessions[1].docs[2].text = last.req.body.args.text
  /\ sessions[1].docs[2].text.k = "string"
  /\ Len(sessions[1].docs[2].text.s) > 50
  /\ sessions[1].docs[1].text.k = "string"

\* C22 as stated: whatever tool calls and uploads came before (also
\* uploads without a title or a text), list_documents on an existing
\* session returns isError: false with documentCount equal to the number
\* of documents of that session.
C22_Original ==
  [][/\ PostStep
     /\ last'.conn # 0
     /\ Calls(last'.req, "list_documents")
     /\ SessionAt(sessions, last'.req.body.args.sessionId) > 0
     => LET i == SessionAt(sessions, last'.req.body.args.sessionId)
        IN  /\ last'.tool.ran /\ ~last'.tool.threw
            /\ \A e \in Emitted(last') :
                 /\ ~e.result.isError
                 /\ e.result.content[1].text.documentCount = Len(sessions[i].docs)]_vars

\* A stored field (title or text) contains the query, case-insensitively.
Contains(v, q) == v.k = "string" /\ Includes(ToLower(v.s), ToLower(q))

\* The sessions a search with the given sessionId covers: all of them when
\* it is absent, else the one it names (none when there is no such one).
Searched(S, sid) ==
  IF sid.k = "undefined" THEN 1..Len(S)
  ELSE IF SessionAt(S, sid) > 0 THEN {SessionAt(S, sid)} ELSE {}

DocMatches(doc, q) == Contains(doc.title, q) \/ Contains(doc.text, q)

\* C23 as stated: search_documents with a query that matches no document
\* of the sessions it covers returns isError: false with an empty result
\* list and resultCount 0, also when the sessionId names no session.
C23_Original ==
  [][/\ PostStep
     /\ last'.conn # 0
     /\ Calls(last'.req, "search_documents")
     /\ last'.req.body.args.query.k = "string"
     /\ \A i \in Searched(sessions, last'.req.body.args.sessionId) :
          \A j \in 1..Len(sessions[i].docs) :
            ~DocMatches(sessions[i].docs[j], last'.req.body.args.query.s)
     => /\ last'.tool.ran /\ ~last'.tool.threw
        /\ \A e \in Emitted(last') :
             /\ ~e.result.isError
             /\ e.result.content[1].text.resultCount = 0
             /\ e.result.content[1].text.results = <<>>]_vars

\* The payload of the tool result a handler produced.
PayloadOf(l) == (CHOOSE e \in Emitted(l) : TRUE).result.content[1].text

\* The place of a search result in the store: its session and its
\* document within it (<<0, 0>> when the store has no such document).
PlaceOf(S, r) ==
  IF \E i \in 1..Len(S) : \E j \in 1..Len(S[i].docs) :
       S[i].id = r.sessionId /\ S[i].docs[j].id = r.docId
  THEN CHOOSE p \in (1..Len(S)) \X (1..MaxStoreDocs + 1) :
         /\ p[2] <= Len(S[p[1]].docs)
         /\ S[p[1]].id = r.sessionId
         /\ S[p[1]].docs[p[2]].id = r.docId
  ELSE <<0, 0>>

Before(p, q) == p[1] < q[1] \/ (p[1] = q[1] /\ p[2] < q[2])

\* C24: the result list a search_documents returns holds exactly the
\* documents of the sessions it covers whose title or text contains the
\* query case-insensitively, each once, in the order of the sessions'
\* creation and, within a session, of the documents' upload.
C24_ExactlyTheMatches ==
  [][/\ PostStep
     /\ last'.conn # 0
     /\ Calls(last'.req, "search_documents")
     /\ last'.tool.ran /\ ~last'.tool.threw
     => LET a == last'.req.body.args
            res == PayloadOf(last').results
            place(n) == PlaceOf(sessions, res[n])
        IN  /\ PayloadOf(last').resultCount = Len(res)
            /\ \A n \in 1..Len(res) :
                 /\ place(n)[1] \in Searched(sessions, a.sessionId)
                 /\ DocMatches(sessions[place(n)[1]].docs[place(n)[2]], a.query.s)
                 /\ res[n].title = sessions[place(n)[1]].docs[place(n)[2]].title
            /\ \A i \in Searched(sessions, a.sessionId) :
                 \A j \in 1..Len(sessions[i].docs) :
                   DocMatches(sessions[i].docs[j], a.query.s) =>
                     Cardinality({n \in 1..Len(res) : place(n) = <<i, j>>}) = 1
            /\ \A n, m \in 1..Len(res) : n < m => Before(place(n), place(m))]_vars

\* A search over all sessions found two documents: first the one of the
\* first session, uploaded last, then the one of the second session.
C24_Witness ==
  /\ last.conn # 0
  /\ Calls(last.req, "search_documents")
  /\ last.req.body.args.sessionId.k = "undefined"
  /\ last.tool.ran /\ ~last.tool.threw
  /\ Len(PayloadOf(last).results) = 2
  /\ PayloadOf(last).results[1].sessionId = sessions[1].id
  /\ PayloadOf(last).results[1].docId = DocId(2)
  /\ PayloadOf(last).results[2].sessionId = sessions[2].id
  /\ PayloadOf(last).results[2].docId = DocId(1)

\* The text t reads q, case-insensitively, from position k (0-based) on.
ReadsAt(t, q, k) ==
  LET rest == ToLower(SubSeq(t, k + 1, Len(t)))
  IN  Len(rest) >= Len(ToLower(q)) /\ SubSeq(rest, 1, Len(ToLower(q))) = ToLower(q)

\* The position of the first match of q in t, -1 when t has none.
FirstMatch(t, q) ==
  IF \E k \in 0..Len(t) : ReadsAt(t, q, k)
  THEN CHOOSE k \in 0..Len(t) :
         ReadsAt(t, q, k) /\ \A m \in 0..(k - 1) : ~ReadsAt(t, q, m)
  ELSE -1

\* C25 as stated: the snippet of every search result is the document text
\* from max(0, i - 50) to min(length, i + 50) between two ellipses, i
\* being the position of the first match in the text (-1 for a document
\* that matches only in its title); the bounds lie in [0, length], the
\* lower not above the upper, and when the text contains the query the
\* slice contains the start of its first occurrence.
C25_Original ==
  [][/\ PostStep
     /\ last'.conn # 0
     /\ Calls(last'.req, "search_documents")
     /\ last'.tool.ran /\ ~last'.tool.threw
     => LET res == PayloadOf(last').results
        IN  \A n \in 1..Len(res) :
              LET p == PlaceOf(sessions, res[n])
                  t == sessions[p[1]].docs[p[2]].text.s
                  i == FirstMatch(t, last'.req.body.args.query.s)
                  lo == IF i - 50 > 0 THEN i - 50 ELSE 0
                  hi == IF i + 50 < Len(t) THEN i + 50 ELSE Len(t)
              IN  /\ 0 <= lo /\ lo <= hi /\ hi <= Len(t)
                  /\ res[n].snippet = <<"...">> \o SubSeq(t, lo + 1, hi) \o <<"...">>
                  /\ i >= 0 => lo <= i /\ i < hi]_vars

\* C26: the frames of a stream stay in the order of their writes. Every
\* step leaves the frames a stream has and adds at most one after them;
\* the frame a POST pushes is the last of its stream when the POST is
\* answered, so it follows the frames of the POSTs handled before it and
\* the keep-alive comments written in between.
C26_FramesInWriteOrder ==
  [][\A h \in 1..Len(streams) :
       /\ \/ streams'[h].frames = streams[h].frames
          \/ /\ Len(streams'[h].frames) = Len(streams[h].frames) + 1
             /\ SubSeq(streams'[h].frames, 1, Len(streams[h].frames))
                  = streams[h].frames
       /\ PostStep =>
            \A i \in DOMAIN last'.writes :
              last'.writes[i].to = h /\ last'.writes[i].outcome = "ok" =>
                LastFrame(h) = last'.writes[i].frame]_vars

\* After the endpoint event: the response of a create_session, a
\* keep-alive comment, then the response of the list_documents handled
\* second.
C26_Witness ==
  /\ Len(streams) = 1
  /\ Len(streams[1].frames) = 4
  /\ streams[1].frames[1].event = "endpoint"
  /\ streams[1].frames[2].env.result.content[1].text.t = "create_session"
  /\ streams[1].frames[3].event = "keep-alive"
  /\ streams[1].frames[4].env.result.content[1].text.t = "list_documents"
  /\ Calls(last.req, "list_documents")
  /\ nPosts = 2

\* C27: a tools/call with params that has resolved its connection runs
\* its tool, leaves the session store as the tool left it and answers the
\* POST once, whatever has become of the connection's stream (ended,
\* transport rejecting writes); it attempts at most one write on the
\* stream, and when that write fails or is skipped the POST carries the
\* response and the tool's effect stays.
C27_ToolRunsToCompletion ==
  [][/\ PostStep
     /\ last'.conn # 0
     /\ last'.req.body.method = "tools/call"
     /\ last'.req.body.hasParams
     => /\ last'.tool.ran
        /\ sessions' = RunTool(sessions, last'.req.body.name, last'.req.body.args).S
        /\ Len(last'.replies) = 1
        /\ Len(last'.writes) <= 1
        /\ \A i \in DOMAIN last'.writes : last'.writes[i].to = last'.conn
        /\ streams[last'.conn].state # "open" =>
             /\ streams' = streams
             /\ IsToolResponse(last'.replies[1].env, last'.req)]_vars

\* upload_document on a connection whose transport rejects writes: the
\* one write threw, the document is stored and the POST carries the
\* result.
C27_Witness ==
  /\ last.conn # 0
  /\ streams[last.conn].state = "broken"
  /\ Calls(last.req, "upload_document")
  /\ last.tool.ran /\ ~last.tool.threw
  /\ Len(last.writes) = 1
  /\ last.writes[1].outcome = "throws"
  /\ DocCount(sessions) = 1
  /\ last.replies[1].env.result.content[1].text.success

\* C28: every JSON-RPC response envelope a POST handler emits, on the POST
\* or in a frame for an SSE stream, has the version tag, the id of the
\* request as it came (none when the request has none), and exactly one
\* of result and error.
C28_EnvelopeShape ==
  [][PostStep =>
       \A e \in Emitted(last') :
         /\ e.jsonrpc = "2.0"
         /\ e.id = last'.req.body.id
         /\ (e.result = AbsentResult) # (e.error = AbsentError)]_vars

\* The method-not-found error for a request with an id, sent as an
\* event-stream frame on the POST.
C28_Witness ==
  /\ last.conn # 0
  /\ last.req.body.method = "ping"
  /\ last.req.body.id = 1
  /\ Len(last.replies) = 1
  /\ last.replies[1].ctype = "sse"
  /\ last.replies[1].env.id = 1
  /\ last.replies[1].env.result = AbsentResult
  /\ last.replies[1].env.error.code = -32601

\* C29: the diagnostic payload of a connection-not-found fault shows the
\* registry as the lookup found it: the count is the number of registered
\* ids, the list is the set of registered ids, and the requested id, the
\* sessionId of the request, is not in it.
C29_DiagnosticsMatchRegistry ==
  [][PostStep /\ last'.replies # <<>> /\ last'.replies[1].status = 404 =>
       LET d == last'.replies[1].env.error.debug
       IN  /\ d.requestedId = last'.req.sessionId
           /\ d.totalConnections = Cardinality(DOMAIN mcpConnections)
           /\ d.availableIds = DOMAIN mcpConnections
           /\ d.requestedId \notin d.availableIds]_vars

\* A POST on the id of the first connection, removed on an error
\* notification: the payload names the one connection that is left.
C29_Witness ==
  /\ Len(streams) = 2
  /\ streams[1].errorSeen
  /\ last.req.sessionId = streams[1].id
  /\ last.replies # <<>>
  /\ last.replies[1].status = 404
  /\ last.replies[1].env.error.debug.totalConnections = 1
  /\ last.replies[1].env.error.debug.availableIds = {streams[2].id}

\* ---- C30
AuthCompletes == nAuth' = nAuth + 1

KeyHeaderOnly ==
  /\ authResult'.kind = "returned"
  /\ authResult'.headers = {[name |-> "api-key", value |-> apiKey.s]}
  /\ nTokenRequests' = nTokenRequests
  /\ authPc = "idle"

TokenObtained ==
  provider.k = "token" /\ provider.token.k = "string" /\ provider.token.s # <<>>

BearerOrFailure ==
  /\ authPc = "awaiting"
  /\ IF TokenObtained
     THEN /\ authResult'.kind = "returned"
          /\ authResult'.headers =
               {[name |-> "Authorization", value |-> <<"Bearer", provider.token.s>>]}
     ELSE /\ authResult'.kind = "threw"
          /\ authResult'.headers = {}
          /\ authResult'.message[1] = "Authentication failed"

RegisteredUnder(id) == IF id \in DOMAIN mcpConnections THEN mcpConnections[id] ELSE 0

\* C31: a step that serves a POST with sessionId=X attempts a write only
\* on the stream registered under X, and leaves every other stream, with
\* the frames delivered on it, as it was; whatever the method and whatever
\* was served on the other connection before.
C31_ConnectionsIsolated ==
  [][PostStep =>
       /\ \A i \in 1..Len(last'.writes) :
            last'.writes[i].to = RegisteredUnder(last'.req.sessionId)
       /\ \A h \in 1..Len(streams) :
            h # RegisteredUnder(last'.req.sessionId) => streams'[h] = streams[h]
       /\ Len(streams') = Len(streams)]_vars

\* Two registered connections, each of which has been delivered a response
\* on its own stream, the last one on the second while the first holds the
\* response to an earlier POST.
C31_Witness ==
  /\ Len(streams) = 2
  /\ DOMAIN mcpConnections = {streams[1].id, streams[2].id}
  /\ Len(streams[1].frames) = 2
  /\ streams[1].frames[2].event = "message"
  /\ Len(streams[2].frames) >= 2
  /\ last.req.sessionId = streams[2].id
  /\ last.conn = 2
  /\ Len(last.writes) = 1
  /\ last.writes[1].outcome = "ok"

\* ---- C32
\* The POST was answered with a tool result whose isError is true.
AnsweredToolFault(o) ==
  \E i \in 1..Len(o.replies) :
    /\ o.replies[i].env.result.t = "tool"
    /\ o.replies[i].env.result.isError

\* C32: a step that serves a tools/call answered with isError: true leaves
\* the session store as it was, whichever tool was called.
C32_FaultLeavesStore ==
  [][PostStep /\ AnsweredToolFault(last') => sessions' = sessions]_vars

\* An upload_document that was answered with isError: true while the
\* store holds a session with a document.
C32_Witness ==
  /\ AnsweredToolFault(last)
  /\ last.req.body.name = [k |-> "string", s |-> <<"upload_document">>]
  /\ last.req.body.args.present
  /\ Len(sessions) >= 1
  /\ Len(sessions[1].docs) = 1

\* ---- C33
\* C33 as stated: a stream that has been sent the endpoint event of an id
\* and has had neither its close nor its error notification has that id
\* registered and mapped to it; and no stream is left open with its
\* advertised id unregistered and its keep-alive cleared.
C33_Original ==
  \A h \in 1..Len(streams) :
    /\ streams[h].frames # <<>> /\ streams[h].frames[1].event = "endpoint"
       /\ ~streams[h].closeSeen /\ ~streams[h].errorSeen
       => /\ streams[h].frames[1].url \in DOMAIN mcpConnections
          /\ mcpConnections[streams[h].frames[1].url] = h
    /\ ~ (/\ streams[h].state = "open"
          /\ streams[h].id \notin DOMAIN mcpConnections
          /\ ~streams[h].keepAlive)

\* ---- C34
\* A step of a connection's life: a stream is opened, or a notification
\* is delivered or the registry changes, outside the serving of a POST.
LifecycleStep ==
  /\ ~PostStep
  /\ \/ Len(streams') # Len(streams)
     \/ mcpConnections' # mcpConnections
     \/ \E h \in 1..Len(streams) :
          \/ streams'[h].closeSeen # streams[h].closeSeen
          \/ streams'[h].errorSeen # streams[h].errorSeen
          \/ streams'[h].state # streams[h].state

\* The position of the document with id v in a list of documents.
DocAt(docs, v) ==
  IF v.k = "string" /\ \E j \in 1..Len(docs) : docs[j].id = v.s
  THEN CHOOSE j \in 1..Len(docs) : docs[j].id = v.s
  ELSE 0

\* C34: opening a stream, closing it, its error, its failing change no
\* session and no document; on whichever registered connection it arrives,
\* get_document of a stored document returns its title and text and
\* upload_document with a title and a text on a stored session appends to
\* it; and POST /session/:sid/upload is served for every stored session.
C34_StoreIndependentOfConnections ==
  /\ [][LifecycleStep => sessions' = sessions]_vars
  /\ [][/\ PostStep
        /\ last'.conn # 0
        /\ Calls(last'.req, "get_document")
        /\ SessionAt(sessions, last'.req.body.args.sessionId) > 0
        /\ DocAt(sessions[SessionAt(sessions, last'.req.body.args.sessionId)].docs,
                 last'.req.body.args.docId) > 0
        => LET docs == sessions[SessionAt(sessions, last'.req.body.args.sessionId)].docs
               doc == docs[DocAt(docs, last'.req.body.args.docId)]
           IN  /\ Emitted(last') # {}
               /\ \A e \in Emitted(last') :
                    /\ ~e.result.isError
                    /\ e.result.content[1].text.title = doc.title
                    /\ e.result.content[1].text.text = doc.text]_vars
  /\ [][/\ PostStep
        /\ last'.conn # 0
        /\ Calls(last'.req, "upload_document")
        /\ last'.req.body.args.title.k = "string"
        /\ last'.req.body.args.text.k = "string"
        /\ SessionAt(sessions, last'.req.body.args.sessionId) > 0
        => LET i == SessionAt(sessions, last'.req.body.args.sessionId)
           IN  /\ Len(sessions'[i].docs) = Len(sessions[i].docs) + 1
               /\ sessions'[i].docs[Len(sessions'[i].docs)].text
                    = last'.req.body.args.text
               /\ \A e \in Emitted(last') : ~e.result.isError]_vars
  /\ [](\A i \in 1..Len(sessions) :
          ENABLED (/\ RestUpload([k |-> "string", s |-> sessions[i].id],
                                 ShortDoc.title, ShortDoc.text)
                   /\ UNCHANGED authVars))

\* The first connection was delivered the response of create_session and
\* has closed; the session then got a document, and get_document on the
\* second connection has returned it on that connection's stream.
C34_Witness ==
  /\ Len(streams) = 2
  /\ streams[1].closeSeen
  /\ Len(streams[1].frames) = 2
  /\ streams[1].frames[2].env.result.t = "tool"
  /\ streams[1].frames[2].env.result.content[1].text.t = "create_session"
  /\ streams[1].id \notin DOMAIN mcpConnections
  /\ Len(sessions) = 1
  /\ Len(sessions[1].docs) = 1
  /\ last.conn = 2
  /\ Calls(last.req, "get_document")
  /\ Len(last.writes) = 1
  /\ last.writes[1].to = 2
  /\ last.writes[1].outcome = "ok"
  /\ last.writes[1].frame.env.result.content[1].text.text = sessions[1].docs[1].text

\* ---- C35
\* C35: no step removes a session or changes its id, and every document
\* a session holds is still in it after the step with the same id, title
\* and text; and in every state the documents of one session have
\* pairwise distinct ids.
C35_StoreOnlyGrows ==
  /\ [][/\ Len(sessions') >= Len(sessions)
        /\ \A i \in 1..Len(sessions) :
             /\ sessions'[i].id = sessions[i].id
             /\ Len(sessions'[i].docs) >= Len(sessions[i].docs)
             /\ \A j \in 1..Len(sessions[i].docs) :
                  \E k \in 1..Len(sessions'[i].docs) :
                    sessions'[i].docs[k] = sessions[i].docs[j]]_vars
  /\ [](\A i \in 1..Len(sessions) :
          \A j, k \in 1..Len(sessions[i].docs) :
            j # k => sessions[i].docs[j].id # sessions[i].docs[k].id)

\* Two sessions and a document made through the REST endpoints, and a
\* second document of the first session uploaded by the tool.
C35_Witness ==
  /\ nPosts = 1
  /\ Calls(last.req, "upload_document")
  /\ last.tool.ran /\ ~last.tool.threw
  /\ Len(sessions) = 2
  /\ Len(sessions[1].docs) = 2
  /\ sessions[1].docs[1].id # sessions[1].docs[2].id

\* ---- C36
\* The streams with everything delivered on them forgotten.
Forget(st) == [h \in 1..Len(st) |-> [st[h] EXCEPT !.frames = <<>>]]

\* The frames a handler attempted, with the stream of each and what became
\* of it.
Attempted(ws) ==
  [i \in 1..Len(ws) |-> <<ws[i].to, ws[i].frame, ws[i].outcome>>]

\* The stream of the request's connection takes a write.
Writable(req) ==
  /\ req.sessionId \in DOMAIN mcpConnections
  /\ streams[mcpConnections[req.sessionId]].state = "open"

=============================================================================
